---- MODULE Spec2Model ----
(***************************************************************************)
(* scaffoldkit: the generator registry (src/core/registry.ts), the base    *)
(* generator contract (src/core/base-generator.ts), the five built-in      *)
(* framework generators and the package generation orchestrator            *)
(* (src/core/generator.ts), as a state machine.                            *)
(*                                                                         *)
(* Strings that the code inspects (package name, output directory) are     *)
(* sequences of characters; file paths and template references are         *)
(* sequences of path segments; messages are sequences of tokens.           *)
(***************************************************************************)
EXTENDS Integers, Sequences, FiniteSets, TLC

VARIABLES
    generators,     \* GeneratorRegistry.generators : Map<string, Generator>
    frameworkMap,   \* GeneratorRegistry.frameworkMap : Map<Framework, Generator[]>
    regSeq,         \* history: the live registrations, oldest first
    lastCall,       \* history: the last registry call, its argument and return
    pc,             \* position of generatePackage
    framework,      \* generatePackage argument
    config,         \* generatePackage argument
    generator,      \* const generator = registry.getPrimary(framework)
    validation,     \* const validation = generator.validate(config)
    files,          \* const files: string[]
    warnings,       \* const warnings: string[]
    fileIdx,        \* position of the for..of loop over filesToGenerate
    fsLog,          \* filesystem and template-engine calls of the current run
    hookCalls,      \* number of postGenerate invocations in the current run
    hookError,      \* message of the error postGenerate threw, <<>> if none
    result,         \* the GeneratorResult the run returned
    subject,        \* the generator and configuration generatePackageJson is given
    exportsRet,     \* const exports = generator.getExports(config)
    depsRet,        \* const deps = generator.getDependencies(config)
    packageJson,    \* the object written to <outDir>/package.json
    now,            \* the date new Date() reads: year and day, from process start
    runA,           \* what a completed run wrote into an emptied output directory
    runB,           \* what the repeat of that run wrote, the directory emptied again
    templateFiles,  \* the files under TEMPLATES_ROOT: reference -> text
    cache,          \* TemplateEngine.cache: reference -> compiled template
    lastRender      \* the last render: its reference, outcome, and the file it faced

registryVars == <<generators, frameworkMap, regSeq, lastCall>>
runVars == <<pc, framework, config, generator, validation, files, warnings,
             fileIdx, fsLog, hookCalls, hookError, result>>
manifestVars == <<subject, exportsRet, depsRet, packageJson>>
repeatVars == <<now, runA, runB>>
engineVars == <<templateFiles, cache, lastRender>>
sideVars == <<subject, exportsRet, depsRet, packageJson, now, runA, runB,
              templateFiles, cache, lastRender>>
vars == <<generators, frameworkMap, regSeq, lastCall, pc, framework, config,
          generator, validation, files, warnings, fileIdx, fsLog, hookCalls,
          hookError, result, subject, exportsRet, depsRet, packageJson, now, runA, runB,
          templateFiles, cache, lastRender>>

(***************************************************************************)
(* Bounds                                                                  *)
(***************************************************************************)
MaxBucket == 3      \* longest framework bucket the model lets register build
MaxStrLen == 1      \* longest package name / output directory string
MaxTicks == 1       \* days, and years, the clock advances
MaxTemplates == 1   \* template files the templates directory holds at a time

Undefined == "undefined"

(***************************************************************************)
(* Sequence helpers (Array.prototype.filter / map / some / join)           *)
(***************************************************************************)
SeqRange(s) == {s[i] : i \in 1..Len(s)}

SeqCount(s, x) == Cardinality({i \in 1..Len(s) : s[i] = x})

RECURSIVE JoinLines(_)
JoinLines(msgs) ==
    IF msgs = <<>> THEN <<>>
    ELSE IF Len(msgs) = 1 THEN Head(msgs)
         ELSE Head(msgs) \o <<"\n">> \o JoinLines(Tail(msgs))

(***************************************************************************)
(* ECMAScript Map: entries <<key, value>> in insertion order; set() of an  *)
(* existing key keeps the key's position.                                  *)
(***************************************************************************)
MapHas(m, k) == \E i \in 1..Len(m) : m[i][1] = k

MapGet(m, k) ==
    IF MapHas(m, k) THEN m[CHOOSE i \in 1..Len(m) : m[i][1] = k][2]
    ELSE Undefined

MapSet(m, k, v) ==
    IF MapHas(m, k)
    THEN [i \in 1..Len(m) |-> IF m[i][1] = k THEN <<k, v>> ELSE m[i]]
    ELSE Append(m, <<k, v>>)

MapDelete(m, k) ==
    LET Keep(e) == e[1] # k IN SelectSeq(m, Keep)

MapKeys(m) == [i \in 1..Len(m) |-> m[i][1]]

MapValues(m) == [i \in 1..Len(m) |-> m[i][2]]

(***************************************************************************)
(* Generator objects.  The five built-in singletons, and three plug-in     *)
(* generators written against the Generator interface: reactAlt reuses the *)
(* id of the built-in React generator, uiKitReact and uiKitVue share one   *)
(* id across two framework tags.  litWidgets extends BaseGenerator the way *)
(* the README shows: it declares dependencies of every kind, file specs    *)
(* with an inclusion predicate, and a types-only export entry.             *)
(***************************************************************************)
BuiltinGenerators ==
    {"reactGenerator", "vueGenerator", "svelteGenerator", "vanillaGenerator",
     "nodeGenerator"}

PluginGenerators == {"reactAlt", "uiKitReact", "uiKitVue"}

LitWidgets == "litWidgets"

ReactMeta ==
    [id |-> "react-library", name |-> "React Library", framework |-> "react",
     supportedPackageTypes |-> <<"library", "utility", "plugin">>,
     supportedRuntimeTargets |-> <<"browser", "universal">>]

VueMeta ==
    [id |-> "vue-library", name |-> "Vue 3 Library", framework |-> "vue",
     supportedPackageTypes |-> <<"library", "plugin", "utility">>,
     supportedRuntimeTargets |-> <<"browser", "universal">>]

SvelteMeta ==
    [id |-> "svelte-library", name |-> "Svelte Library", framework |-> "svelte",
     supportedPackageTypes |-> <<"library", "plugin", "utility">>,
     supportedRuntimeTargets |-> <<"browser", "universal">>]

VanillaMeta ==
    [id |-> "typescript-utility", name |-> "TypeScript Utility Package",
     framework |-> "vanilla",
     supportedPackageTypes |-> <<"utility", "library", "sdk">>,
     supportedRuntimeTargets |-> <<"browser", "node", "edge", "universal">>]

NodeMeta ==
    [id |-> "node-package", name |-> "Node.js Package", framework |-> "node",
     supportedPackageTypes |-> <<"utility", "library", "cli", "sdk">>,
     supportedRuntimeTargets |-> <<"node", "edge">>]

\* GeneratorMeta values of the plug-in generators
PluginMeta(g) ==
    CASE g = "reactAlt" ->
            [id |-> "react-library", name |-> "React Alt", framework |-> "react",
             supportedPackageTypes |-> <<"library">>,
             supportedRuntimeTargets |-> <<"browser">>]
      [] g = "uiKitReact" ->
            [id |-> "ui-kit", name |-> "UI Kit (React)", framework |-> "react",
             supportedPackageTypes |-> <<"library">>,
             supportedRuntimeTargets |-> <<"browser">>]
      [] g = "uiKitVue" ->
            [id |-> "ui-kit", name |-> "UI Kit (Vue)", framework |-> "vue",
             supportedPackageTypes |-> <<"library">>,
             supportedRuntimeTargets |-> <<"browser">>]
      [] g = LitWidgets ->
            [id |-> "lit-widgets", name |-> "Lit Widgets", framework |-> "lit",
             supportedPackageTypes |-> <<"library">>,
             supportedRuntimeTargets |-> <<"browser">>]

\* generator.meta
Meta(g) ==
    CASE g = "reactGenerator" -> ReactMeta
      [] g = "vueGenerator" -> VueMeta
      [] g = "svelteGenerator" -> SvelteMeta
      [] g = "vanillaGenerator" -> VanillaMeta
      [] g = "nodeGenerator" -> NodeMeta
      [] OTHER -> PluginMeta(g)

\* the generator objects the registry model registers
RegistryPool == {"reactGenerator", "vueGenerator"} \cup PluginGenerators

RegistryIds == {Meta(g).id : g \in RegistryPool} \cup {"missing"}

Frameworks == {"react", "vue", "svelte", "vanilla", "node"}

(***************************************************************************)
(* GeneratorRegistry, as functions of the registry value                   *)
(* reg = [generators |-> Map, frameworkMap |-> Map]                        *)
(***************************************************************************)
RegistryRegisterKeepFirst(reg, g) ==
    LET id == Meta(g).id
        fw == Meta(g).framework
        existing == IF MapHas(reg.frameworkMap, fw)
                    THEN MapGet(reg.frameworkMap, fw) ELSE <<>>
    IN [generators |-> IF MapHas(reg.generators, id) THEN reg.generators
                       ELSE MapSet(reg.generators, id, g),
        frameworkMap |-> MapSet(reg.frameworkMap, fw, Append(existing, g))]

RegistryRegister(reg, g) ==
    LET id == Meta(g).id
        fw == Meta(g).framework
        existing == IF MapHas(reg.frameworkMap, fw)
                    THEN MapGet(reg.frameworkMap, fw) ELSE <<>>
    IN [generators |-> MapSet(reg.generators, id, g),
        frameworkMap |-> MapSet(reg.frameworkMap, fw, Append(existing, g))]

RegistryUnregister(reg, id) ==
    LET g == MapGet(reg.generators, id)
        fw == Meta(g).framework
        existing == IF MapHas(reg.frameworkMap, fw)
                    THEN MapGet(reg.frameworkMap, fw) ELSE <<>>
        Keep(x) == Meta(x).id # id
    IN IF g = Undefined
       THEN [reg |-> reg, ret |-> FALSE]
       ELSE [reg |-> [generators |-> MapDelete(reg.generators, id),
                      frameworkMap |-> MapSet(reg.frameworkMap, fw,
                                              SelectSeq(existing, Keep))],
             ret |-> TRUE]

RegistryClear(reg) == [generators |-> <<>>, frameworkMap |-> <<>>]

TheRegistry == [generators |-> generators, frameworkMap |-> frameworkMap]

Get(id) == MapGet(generators, id)

GetByFramework(fw) ==
    IF MapHas(frameworkMap, fw) THEN MapGet(frameworkMap, fw) ELSE <<>>

GetPrimary(fw) ==
    LET gens == GetByFramework(fw)
    IN IF Len(gens) > 0 THEN gens[1] ELSE Undefined

GetAll == MapValues(generators)

GetSupportedFrameworks == MapKeys(frameworkMap)

Has(id) == MapHas(generators, id)

HasFramework(fw) ==
    MapHas(frameworkMap, fw) /\ Len(MapGet(frameworkMap, fw)) > 0

(***************************************************************************)
(* Strings the code inspects, as character sequences                       *)
(***************************************************************************)
Chars == {" ", "a"}

Strs == UNION {[1..n -> Chars] : n \in 0..MaxStrLen}

RECURSIVE TrimStart(_)
TrimStart(str) ==
    IF str # <<>> /\ Head(str) = " " THEN TrimStart(Tail(str)) ELSE str

RECURSIVE TrimEnd(_)
TrimEnd(str) ==
    IF str # <<>> /\ str[Len(str)] = " "
    THEN TrimEnd(SubSeq(str, 1, Len(str) - 1)) ELSE str

\* String.prototype.trim
Trim(str) == TrimEnd(TrimStart(str))

\* path.basename / path.dirname on a path given as its segments
Basename(path) == IF path = <<>> THEN <<>> ELSE <<path[Len(path)]>>

Dirname(path) == IF path = <<>> THEN <<>> ELSE SubSeq(path, 1, Len(path) - 1)

(***************************************************************************)
(* GeneratorConfig: the fields the modelled code branches on               *)
(***************************************************************************)
PackageTypes == {"library", "cli", "adapter"}

RuntimeTargets == {"browser", "node"}

BuildSystems == {"tsup", "vite", "esbuild"}

PackageManagers == {"npm", "pnpm"}

Configs ==
    [name : Strs, outDir : Strs, packageType : PackageTypes,
     runtimeTarget : RuntimeTargets, buildSystem : BuildSystems,
     packageManager : PackageManagers, includeExample : BOOLEAN]

\* the framework tags a caller passes to generatePackage
RequestedFrameworks == Frameworks \cup {"cobol"}

(***************************************************************************)
(* BaseGenerator.validate and the validateFrameworkConfig overrides        *)
(***************************************************************************)
Includes(s, x) == \E i \in 1..Len(s) : s[i] = x

Issue(sev, msg) == [severity |-> sev, category |-> "config", message |-> msg]

ReactValidateFrameworkConfig(cfg) ==
    IF cfg.runtimeTarget = "node"
    THEN <<Issue("warning",
                 <<"React libraries typically target browser, not Node.js">>)>>
    ELSE <<>>

NodeValidateFrameworkConfig(cfg) ==
    IF cfg.runtimeTarget = "browser"
    THEN <<Issue("warning",
                 <<"Node.js packages typically target Node.js, not browser">>)>>
    ELSE <<>>

VueValidateFrameworkConfig(cfg) ==
    IF cfg.buildSystem # "vite"
    THEN <<Issue("info",
                 <<"Vite is the recommended build system for Vue libraries">>)>>
    ELSE <<>>

SvelteValidateFrameworkConfig(cfg) ==
    IF cfg.buildSystem # "vite"
    THEN <<Issue("warning",
                 <<"Svelte libraries typically use @sveltejs/package with Vite">>)>>
    ELSE <<>>

VanillaValidateFrameworkConfig(cfg) == <<>>

\* this.validateFrameworkConfig(config), by dynamic dispatch
ValidateFrameworkConfig(g, cfg) ==
    CASE g = "reactGenerator" -> ReactValidateFrameworkConfig(cfg)
      [] g = "nodeGenerator" -> NodeValidateFrameworkConfig(cfg)
      [] g = "vueGenerator" -> VueValidateFrameworkConfig(cfg)
      [] g = "svelteGenerator" -> SvelteValidateFrameworkConfig(cfg)
      [] g = "vanillaGenerator" -> VanillaValidateFrameworkConfig(cfg)
      [] OTHER -> <<>>

IsError(i) == i.severity = "error"

IsWarning(i) == i.severity = "warning"

ValidateSkipTargets(g, cfg) ==
    LET issues ==
            (IF cfg.name = <<>> \/ Trim(cfg.name) = <<>>
             THEN <<Issue("error", <<"Package name is required">>)>> ELSE <<>>)
         \o (IF ~Includes(Meta(g).supportedPackageTypes, cfg.packageType)
             THEN <<Issue("error", <<"Package type \"", cfg.packageType,
                                     "\" is not supported by ", Meta(g).name>>)>>
             ELSE <<>>)
         \o (IF cfg.outDir = <<>> \/ Trim(cfg.outDir) = <<>>
             THEN <<Issue("error", <<"Output directory is required">>)>> ELSE <<>>)
         \o ValidateFrameworkConfig(g, cfg)
    IN [valid |-> ~(\E i \in 1..Len(issues) : IsError(issues[i])),
        issues |-> issues]

ValidateNoTrim(g, cfg) ==
    LET issues ==
            (IF cfg.name = <<>>
             THEN <<Issue("error", <<"Package name is required">>)>> ELSE <<>>)
         \o (IF ~Includes(Meta(g).supportedPackageTypes, cfg.packageType)
             THEN <<Issue("error", <<"Package type \"", cfg.packageType,
                                     "\" is not supported by ", Meta(g).name>>)>>
             ELSE <<>>)
         \o (IF ~Includes(Meta(g).supportedRuntimeTargets, cfg.runtimeTarget)
             THEN <<Issue("error", <<"Runtime target \"", cfg.runtimeTarget,
                                     "\" is not supported by ", Meta(g).name>>)>>
             ELSE <<>>)
         \o (IF cfg.outDir = <<>>
             THEN <<Issue("error", <<"Output directory is required">>)>> ELSE <<>>)
         \o ValidateFrameworkConfig(g, cfg)
    IN [valid |-> ~(\E i \in 1..Len(issues) : IsError(issues[i])),
        issues |-> issues]

Validate(g, cfg) ==
    LET issues ==
            (IF cfg.name = <<>> \/ Trim(cfg.name) = <<>>
             THEN <<Issue("error", <<"Package name is required">>)>> ELSE <<>>)
         \o (IF ~Includes(Meta(g).supportedPackageTypes, cfg.packageType)
             THEN <<Issue("error", <<"Package type \"", cfg.packageType,
                                     "\" is not supported by ", Meta(g).name>>)>>
             ELSE <<>>)
         \o (IF ~Includes(Meta(g).supportedRuntimeTargets, cfg.runtimeTarget)
             THEN <<Issue("error", <<"Runtime target \"", cfg.runtimeTarget,
                                     "\" is not supported by ", Meta(g).name>>)>>
             ELSE <<>>)
         \o (IF cfg.outDir = <<>> \/ Trim(cfg.outDir) = <<>>
             THEN <<Issue("error", <<"Output directory is required">>)>> ELSE <<>>)
         \o ValidateFrameworkConfig(g, cfg)
    IN [valid |-> ~(\E i \in 1..Len(issues) : IsError(issues[i])),
        issues |-> issues]

Messages(issues) == [i \in 1..Len(issues) |-> issues[i].message]

(***************************************************************************)
(* BaseGenerator.getFiles and the getFrameworkFiles overrides              *)
(***************************************************************************)
F(path, template) == [path |-> path, template |-> template, isTemplate |-> TRUE]

GetCommonFiles(cfg) ==
    <<  F(<<"tsconfig.json">>, <<"common", "tsconfig.json.hbs">>),
        F(<<"README.md">>, <<"common", "README.md.hbs">>),
        F(<<"LICENSE">>, <<"common", "LICENSE.hbs">>),
        F(<<".gitignore">>, <<"common", "gitignore.hbs">>),
        F(<<".npmignore">>, <<"common", "npmignore.hbs">>),
        F(<<"CHANGELOG.md">>, <<"common", "CHANGELOG.md.hbs">>) >>
    \o (CASE cfg.buildSystem = "tsup" ->
                << F(<<"tsup.config.ts">>, <<"common", "tsup.config.ts.hbs">>) >>
          [] cfg.buildSystem = "vite" ->
                << F(<<"vite.config.ts">>, <<"common", "vite.config.ts.hbs">>) >>
          [] cfg.buildSystem = "rollup" ->
                << F(<<"rollup.config.ts">>, <<"common", "rollup.config.ts.hbs">>) >>
          [] cfg.buildSystem = "unbuild" ->
                << F(<<"build.config.ts">>, <<"common", "unbuild.config.ts.hbs">>) >>
          [] OTHER -> <<>>)
    \o << F(<<"vitest.config.ts">>, <<"common", "vitest.config.ts.hbs">>) >>

ReactFrameworkFiles(cfg) ==
    <<  F(<<"src", "index.ts">>, <<"react", "src", "index.ts.hbs">>),
        F(<<"src", "components", "Button", "Button.tsx">>, <<"react", "src", "components", "Button", "Button.tsx.hbs">>),
        F(<<"src", "components", "Button", "Button.test.tsx">>, <<"react", "src", "components", "Button", "Button.test.tsx.hbs">>),
        F(<<"src", "components", "Button", "index.ts">>, <<"react", "src", "components", "Button", "index.ts.hbs">>),
        F(<<"src", "hooks", "useToggle.ts">>, <<"react", "src", "hooks", "useToggle.ts.hbs">>),
        F(<<"src", "hooks", "useToggle.test.ts">>, <<"react", "src", "hooks", "useToggle.test.ts.hbs">>),
        F(<<"src", "hooks", "index.ts">>, <<"react", "src", "hooks", "index.ts.hbs">>),
        F(<<"eslint.config.js">>, <<"react", "eslint.config.js.hbs">>),
        F(<<"vitest.setup.ts">>, <<"common", "vitest.setup.ts.hbs">>) >>
    \o (IF cfg.includeExample
        THEN << F(<<"example", "index.html">>, <<"react", "example", "index.html.hbs">>),
                F(<<"example", "main.tsx">>, <<"react", "example", "main.tsx.hbs">>),
                F(<<"example", "App.tsx">>, <<"react", "example", "App.tsx.hbs">>),
                F(<<"example", "vite.config.ts">>, <<"react", "example", "vite.config.ts.hbs">>),
                F(<<"example", "package.json">>, <<"react", "example", "package.json.hbs">>),
                F(<<"example", "tsconfig.json">>, <<"react", "example", "tsconfig.json.hbs">>) >>
        ELSE <<>>)

NodeFrameworkFiles(cfg) ==
    (IF cfg.packageType = "cli"
     THEN << F(<<"src", "index.ts">>, <<"node", "src", "index-cli.ts.hbs">>),
             F(<<"src", "bin", "cli.ts">>, <<"node", "src", "bin", "cli.ts.hbs">>),
             F(<<"src", "commands", "init.ts">>, <<"node", "src", "commands", "init.ts.hbs">>),
             F(<<"src", "commands", "index.ts">>, <<"node", "src", "commands", "index.ts.hbs">>),
             F(<<"src", "utils", "logger.ts">>, <<"node", "src", "utils", "logger.ts.hbs">>),
             F(<<"src", "utils", "index.ts">>, <<"node", "src", "utils", "index.ts.hbs">>) >>
     ELSE << F(<<"src", "index.ts">>, <<"node", "src", "index.ts.hbs">>),
             F(<<"src", "core", "client.ts">>, <<"node", "src", "core", "client.ts.hbs">>),
             F(<<"src", "core", "client.test.ts">>, <<"node", "src", "core", "client.test.ts.hbs">>),
             F(<<"src", "core", "index.ts">>, <<"node", "src", "core", "index.ts.hbs">>),
             F(<<"src", "types.ts">>, <<"node", "src", "types.ts.hbs">>) >>)
    \o << F(<<"eslint.config.js">>, <<"node", "eslint.config.js.hbs">>) >>
    \o (IF cfg.includeExample
        THEN << F(<<"example", "package.json">>, <<"node", "example", "package.json.hbs">>) >>
             \o (IF cfg.packageType = "cli"
                 THEN << F(<<"example", "demo.sh">>, <<"node", "example", "demo.sh.hbs">>) >>
                 ELSE << F(<<"example", "usage.ts">>, <<"node", "example", "usage.ts.hbs">>) >>)
        ELSE <<>>)

VueFrameworkFiles(cfg) ==
    <<  F(<<"src", "index.ts">>, <<"vue", "src", "index.ts.hbs">>),
        F(<<"src", "components", "Button", "Button.vue">>, <<"vue", "src", "components", "Button", "Button.vue.hbs">>),
        F(<<"src", "components", "Button", "Button.test.ts">>, <<"vue", "src", "components", "Button", "Button.test.ts.hbs">>),
        F(<<"src", "components", "Button", "index.ts">>, <<"vue", "src", "components", "Button", "index.ts.hbs">>),
        F(<<"src", "composables", "useToggle.ts">>, <<"vue", "src", "composables", "useToggle.ts.hbs">>),
        F(<<"src", "composables", "useToggle.test.ts">>, <<"vue", "src", "composables", "useToggle.test.ts.hbs">>),
        F(<<"src", "composables", "index.ts">>, <<"vue", "src", "composables", "index.ts.hbs">>),
        F(<<"src", "plugin.ts">>, <<"vue", "src", "plugin.ts.hbs">>),
        F(<<"eslint.config.js">>, <<"vue", "eslint.config.js.hbs">>),
        F(<<"src", "shims-vue.d.ts">>, <<"vue", "src", "shims-vue.d.ts.hbs">>) >>
    \o (IF cfg.includeExample
        THEN << F(<<"example", "index.html">>, <<"vue", "example", "index.html.hbs">>),
                F(<<"example", "main.ts">>, <<"vue", "example", "main.ts.hbs">>),
                F(<<"example", "App.vue">>, <<"vue", "example", "App.vue.hbs">>),
                F(<<"example", "vite.config.ts">>, <<"vue", "example", "vite.config.ts.hbs">>),
                F(<<"example", "package.json">>, <<"vue", "example", "package.json.hbs">>),
                F(<<"example", "tsconfig.json">>, <<"vue", "example", "tsconfig.json.hbs">>) >>
        ELSE <<>>)

SvelteFrameworkFiles(cfg) ==
    <<  F(<<"src", "lib", "index.ts">>, <<"svelte", "src", "lib", "index.ts.hbs">>),
        F(<<"src", "lib", "components", "Button", "Button.svelte">>, <<"svelte", "src", "lib", "components", "Button", "Button.svelte.hbs">>),
        F(<<"src", "lib", "components", "Button", "Button.test.ts">>, <<"svelte", "src", "lib", "components", "Button", "Button.test.ts.hbs">>),
        F(<<"src", "lib", "components", "Button", "index.ts">>, <<"svelte", "src", "lib", "components", "Button", "index.ts.hbs">>),
        F(<<"src", "lib", "stores", "toggle.ts">>, <<"svelte", "src", "lib", "stores", "toggle.ts.hbs">>),
        F(<<"src", "lib", "stores", "toggle.test.ts">>, <<"svelte", "src", "lib", "stores", "toggle.test.ts.hbs">>),
        F(<<"src", "lib", "stores", "index.ts">>, <<"svelte", "src", "lib", "stores", "index.ts.hbs">>),
        F(<<"svelte.config.js">>, <<"svelte", "svelte.config.js.hbs">>),
        F(<<"eslint.config.js">>, <<"svelte", "eslint.config.js.hbs">>) >>
    \o (IF cfg.includeExample
        THEN << F(<<"example", "index.html">>, <<"svelte", "example", "index.html.hbs">>),
                F(<<"example", "main.ts">>, <<"svelte", "example", "main.ts.hbs">>),
                F(<<"example", "App.svelte">>, <<"svelte", "example", "App.svelte.hbs">>),
                F(<<"example", "vite.config.ts">>, <<"svelte", "example", "vite.config.ts.hbs">>),
                F(<<"example", "package.json">>, <<"svelte", "example", "package.json.hbs">>),
                F(<<"example", "tsconfig.json">>, <<"svelte", "example", "tsconfig.json.hbs">>),
                F(<<"example", "svelte.config.js">>, <<"svelte", "example", "svelte.config.js.hbs">>) >>
        ELSE <<>>)

VanillaFrameworkFiles(cfg) ==
    <<  F(<<"src", "index.ts">>, <<"vanilla", "src", "index.ts.hbs">>),
        F(<<"src", "utils", "string.ts">>, <<"vanilla", "src", "utils", "string.ts.hbs">>),
        F(<<"src", "utils", "string.test.ts">>, <<"vanilla", "src", "utils", "string.test.ts.hbs">>),
        F(<<"src", "utils", "array.ts">>, <<"vanilla", "src", "utils", "array.ts.hbs">>),
        F(<<"src", "utils", "array.test.ts">>, <<"vanilla", "src", "utils", "array.test.ts.hbs">>),
        F(<<"src", "utils", "index.ts">>, <<"vanilla", "src", "utils", "index.ts.hbs">>),
        F(<<"src", "types.ts">>, <<"vanilla", "src", "types.ts.hbs">>),
        F(<<"eslint.config.js">>, <<"vanilla", "eslint.config.js.hbs">>),
        F(<<".prettierrc">>, <<"vanilla", ".prettierrc.hbs">>) >>
    \o (IF cfg.includeExample
        THEN << F(<<"example", "index.html">>, <<"vanilla", "example", "index.html.hbs">>),
                F(<<"example", "main.ts">>, <<"vanilla", "example", "main.ts.hbs">>),
                F(<<"example", "vite.config.ts">>, <<"vanilla", "example", "vite.config.ts.hbs">>),
                F(<<"example", "package.json">>, <<"vanilla", "example", "package.json.hbs">>),
                F(<<"example", "tsconfig.json">>, <<"vanilla", "example", "tsconfig.json.hbs">>) >>
        ELSE <<>>)

\* the plug-in's two optional files carry an inclusion predicate
LitWidgetsFrameworkFiles(cfg) ==
    <<  F(<<"src", "index.ts">>, <<"lit", "src", "index.ts.hbs">>),
        [path |-> <<"src", "styles.css">>,
         template |-> <<"lit", "src", "styles.css.hbs">>,
         isTemplate |-> TRUE, condition |-> "usesVite"],
        [path |-> <<"example", "index.html">>,
         template |-> <<"lit", "example", "index.html.hbs">>,
         isTemplate |-> TRUE, condition |-> "includeExample"],
        [path |-> <<".editorconfig">>, template |-> <<"root = true">>,
         isTemplate |-> FALSE] >>

GetFrameworkFiles(g, cfg) ==
    CASE g = "reactGenerator" -> ReactFrameworkFiles(cfg)
      [] g = "nodeGenerator" -> NodeFrameworkFiles(cfg)
      [] g = "vueGenerator" -> VueFrameworkFiles(cfg)
      [] g = "svelteGenerator" -> SvelteFrameworkFiles(cfg)
      [] g = "vanillaGenerator" -> VanillaFrameworkFiles(cfg)
      [] g = LitWidgets -> LitWidgetsFrameworkFiles(cfg)

GetFilesFrameworkFirst(g, cfg) == GetFrameworkFiles(g, cfg) \o GetCommonFiles(cfg)

\* the manifest is declared as a template-backed file as well
GetFilesWithManifest(g, cfg) ==
    GetCommonFiles(cfg) \o GetFrameworkFiles(g, cfg)
       \o <<F(<<"package.json">>, <<"common", "package.json.hbs">>)>>

GetFiles(g, cfg) == GetCommonFiles(cfg) \o GetFrameworkFiles(g, cfg)

\* file.condition(config): the predicates are named, and applied here
Condition(name, cfg) ==
    CASE name = "usesVite" -> cfg.buildSystem = "vite"
      [] name = "includeExample" -> cfg.includeExample

SkippedNever(file, cfg) == FALSE

\* file.condition && !file.condition(config): no built-in file spec carries one
Skipped(file, cfg) ==
    "condition" \in DOMAIN file /\ ~Condition(file.condition, cfg)

(***************************************************************************)
(* generateNextSteps                                                       *)
(***************************************************************************)
GenerateNextSteps(cfg) ==
    << <<"cd ">> \o Basename(<<cfg.outDir>>) >>
    \o (CASE cfg.packageManager = "pnpm" -> << <<"pnpm install">> >>
          [] cfg.packageManager = "yarn" -> << <<"yarn">> >>
          [] cfg.packageManager = "bun" -> << <<"bun install">> >>
          [] OTHER -> << <<"npm install">> >>)
    \o << <<"npm run build">>, <<"npm run test">> >>

(***************************************************************************)
(* ECMAScript objects: functions from property names.  A property that is  *)
(* absent reads as undefined.                                              *)
(***************************************************************************)
EmptyObject == [k \in {} |-> Undefined]

Prop(obj, k) == IF k \in DOMAIN obj THEN obj[k] ELSE Undefined

\* { ...a, ...b }
Spread(a, b) == b @@ a

\* const { [k]: _, ...rest } = obj
Rest(obj, k) == [x \in DOMAIN obj \ {k} |-> obj[x]]

\* truthiness of a string | undefined value
Truthy(v) == v # Undefined /\ v # ""

\* a || b
OrElse(a, b) == IF Truthy(a) THEN a ELSE b

\* JSON.stringify leaves out the properties whose value is undefined
JsonObject(obj) == [x \in {k \in DOMAIN obj : obj[k] # Undefined} |-> obj[x]]

(***************************************************************************)
(* BaseGenerator.getDependencies and the getFrameworkDependencies          *)
(* overrides                                                               *)
(***************************************************************************)
Dep(name, version) == [name |-> name, version |-> version, type |-> "dependency"]

PeerDep(name, version) ==
    [name |-> name, version |-> version, type |-> "peerDependency"]

DevDep(name, version) ==
    [name |-> name, version |-> version, type |-> "devDependency"]

OptionalDep(name, version) ==
    [name |-> name, version |-> version, type |-> "optionalDependency"]

DependencyKinds ==
    {"dependency", "devDependency", "peerDependency", "optionalDependency"}

GetCommonDependencies(cfg) ==
    << DevDep("typescript", "^5.7.0"), DevDep("@types/node", "^22.0.0") >>
    \o (CASE cfg.buildSystem = "tsup" -> << DevDep("tsup", "^8.3.0") >>
          [] cfg.buildSystem = "vite" ->
                << DevDep("vite", "^6.0.0"), DevDep("vite-plugin-dts", "^4.3.0") >>
          [] cfg.buildSystem = "rollup" ->
                << DevDep("rollup", "^4.28.0"),
                   DevDep("@rollup/plugin-typescript", "^12.1.0"),
                   DevDep("@rollup/plugin-node-resolve", "^16.0.0") >>
          [] cfg.buildSystem = "unbuild" -> << DevDep("unbuild", "^3.0.0") >>
          [] cfg.buildSystem = "esbuild" -> << DevDep("esbuild", "^0.24.0") >>
          [] OTHER -> <<>>)
    \o << DevDep("vitest", "^2.1.0") >>

ReactFrameworkDependencies(cfg) ==
    << PeerDep("react", "^18.0.0 || ^19.0.0"),
       PeerDep("react-dom", "^18.0.0 || ^19.0.0"),
       DevDep("@types/react", "^18.0.0"),
       DevDep("@types/react-dom", "^18.0.0"),
       DevDep("@testing-library/react", "^16.1.0"),
       DevDep("@testing-library/jest-dom", "^6.6.0"),
       DevDep("jsdom", "^25.0.0"),
       DevDep("eslint", "^9.17.0"),
       DevDep("@eslint/js", "^9.17.0"),
       DevDep("eslint-plugin-react", "^7.37.0"),
       DevDep("eslint-plugin-react-hooks", "^5.1.0"),
       DevDep("globals", "^15.0.0"),
       DevDep("typescript-eslint", "^8.18.0"),
       DevDep("@vitejs/plugin-react", "^4.3.0") >>

NodeFrameworkDependencies(cfg) ==
    << DevDep("@types/node", "^22.10.0"),
       DevDep("eslint", "^9.17.0"),
       DevDep("@eslint/js", "^9.17.0"),
       DevDep("typescript-eslint", "^8.18.0"),
       DevDep("globals", "^15.0.0") >>
    \o (IF cfg.packageType = "cli"
        THEN << Dep("commander", "^12.1.0"),
                Dep("chalk", "^5.3.0"),
                Dep("@inquirer/prompts", "^7.2.0"),
                Dep("ora", "^8.1.0") >>
        ELSE <<>>)

VueFrameworkDependencies(cfg) ==
    << PeerDep("vue", "^3.4.0"),
       DevDep("@vitejs/plugin-vue", "^5.2.0"),
       DevDep("vue-tsc", "^2.2.0"),
       DevDep("@vue/test-utils", "^2.4.0"),
       DevDep("@testing-library/vue", "^8.1.0"),
       DevDep("jsdom", "^25.0.0"),
       DevDep("happy-dom", "^15.11.0"),
       DevDep("eslint", "^9.17.0"),
       DevDep("@eslint/js", "^9.17.0"),
       DevDep("eslint-plugin-vue", "^9.32.0"),
       DevDep("typescript-eslint", "^8.18.0") >>

SvelteFrameworkDependencies(cfg) ==
    << PeerDep("svelte", "^4.0.0 || ^5.0.0"),
       DevDep("@sveltejs/package", "^2.3.0"),
       DevDep("@sveltejs/vite-plugin-svelte", "^4.0.0"),
       DevDep("svelte", "^5.0.0"),
       DevDep("svelte-check", "^4.1.0"),
       DevDep("@testing-library/svelte", "^5.2.0"),
       DevDep("jsdom", "^25.0.0"),
       DevDep("eslint", "^9.17.0"),
       DevDep("@eslint/js", "^9.17.0"),
       DevDep("eslint-plugin-svelte", "^2.46.0"),
       DevDep("typescript-eslint", "^8.18.0"),
       DevDep("svelte-preprocess", "^6.0.0") >>

VanillaFrameworkDependencies(cfg) ==
    << DevDep("eslint", "^9.17.0"),
       DevDep("@eslint/js", "^9.17.0"),
       DevDep("typescript-eslint", "^8.18.0"),
       DevDep("globals", "^15.0.0"),
       DevDep("prettier", "^3.4.0") >>

LitWidgetsFrameworkDependencies(cfg) ==
    << PeerDep("lit", "^3.0.0"),
       Dep("tslib", "^2.8.0"),
       OptionalDep("@lit/task", "^1.0.0") >>

GetFrameworkDependencies(g, cfg) ==
    CASE g = "reactGenerator" -> ReactFrameworkDependencies(cfg)
      [] g = "nodeGenerator" -> NodeFrameworkDependencies(cfg)
      [] g = "vueGenerator" -> VueFrameworkDependencies(cfg)
      [] g = "svelteGenerator" -> SvelteFrameworkDependencies(cfg)
      [] g = "vanillaGenerator" -> VanillaFrameworkDependencies(cfg)
      [] g = LitWidgets -> LitWidgetsFrameworkDependencies(cfg)

GetDependencies(g, cfg) ==
    GetCommonDependencies(cfg) \o GetFrameworkDependencies(g, cfg)

(***************************************************************************)
(* BaseGenerator.getExports and its overrides                              *)
(***************************************************************************)
BaseGetExportsAlwaysRequire(cfg) ==
    << [path |-> ".", types |-> "./dist/index.d.ts", import |-> "./dist/index.js",
        require |-> "./dist/index.cjs", default |-> "./dist/index.js"] >>

BaseGetExports(cfg) ==
    LET mainExport ==
            [path |-> ".", types |-> "./dist/index.d.ts",
             import |-> "./dist/index.js"]
        withRequire ==
            IF cfg.moduleFormat = "dual"
            THEN Spread(mainExport, [require |-> "./dist/index.cjs"])
            ELSE mainExport
    IN << Spread(withRequire, [default |-> "./dist/index.js"]) >>

NodeGetExportsNoBin(cfg) == BaseGetExports(cfg)

NodeGetExports(cfg) ==
    BaseGetExports(cfg)
    \o (IF cfg.packageType = "cli"
        THEN << [path |-> "./bin", types |-> "./dist/bin/cli.d.ts",
                 import |-> "./dist/bin/cli.js"] >>
        ELSE <<>>)

LitWidgetsGetExports(cfg) ==
    BaseGetExports(cfg)
    \o << [path |-> "./styles", types |-> "./dist/styles.d.ts"] >>

GetExports(g, cfg) ==
    CASE g = "nodeGenerator" -> NodeGetExports(cfg)
      [] g = LitWidgets -> LitWidgetsGetExports(cfg)
      [] OTHER -> BaseGetExports(cfg)

(***************************************************************************)
(* BaseGenerator.getPackageJsonExtras and the                              *)
(* getFrameworkPackageJsonExtras overrides                                 *)
(***************************************************************************)
GetCommonPackageJsonExtras(cfg) ==
    [sideEffects |-> FALSE,
     files |-> <<"dist", "README.md", "LICENSE", "CHANGELOG.md">>]

LintScripts == [lint |-> "eslint src"] @@ ("lint:fix" :> "eslint src --fix")

ExampleScripts ==
    ("example:install" :> "cd example && npm install")
    @@ ("example:dev" :> "cd example && npm run dev")

ReactPackageJsonExtras(cfg) ==
    LET scripts ==
            IF cfg.includeExample
            THEN Spread(Spread(LintScripts, ExampleScripts),
                        "example:prod" :>
                            "npm run build && cd example && npm run dev:prod")
            ELSE LintScripts
    IN [peerDependenciesMeta |-> ("react-dom" :> [optional |-> TRUE]),
        scripts |-> scripts]

\* name.replace(/^@[^/]+\//, '')
StripScope(name) ==
    LET slashes == {i \in 1..Len(name) : name[i] = "/"}
        first == IF slashes = {} THEN 0
                 ELSE CHOOSE i \in slashes : \A j \in slashes : i <= j
    IN IF name # <<>> /\ Head(name) = "@" /\ first >= 3
       THEN SubSeq(name, first + 1, Len(name))
       ELSE name

NodePackageJsonExtras(cfg) ==
    LET scripts ==
            IF cfg.includeExample /\ cfg.packageType # "cli"
            THEN Spread(LintScripts,
                        "example:run" :> "cd example && npx tsx usage.ts")
            ELSE LintScripts
        extras == [engines |-> [node |-> ">=18.0.0"], scripts |-> scripts]
    IN IF cfg.packageType = "cli"
       THEN Spread(extras,
                   [bin |-> (StripScope(cfg.name) :> "./dist/bin/cli.js")])
       ELSE extras

VuePackageJsonExtras(cfg) ==
    LET scripts == Spread(LintScripts, [typecheck |-> "vue-tsc --noEmit"])
    IN [scripts |-> IF cfg.includeExample THEN Spread(scripts, ExampleScripts)
                    ELSE scripts]

SveltePackageJsonExtras(cfg) ==
    LET scripts ==
            Spread(Spread([build |-> "svelte-package -i src/lib"], LintScripts),
                   [check |-> "svelte-check --tsconfig ./tsconfig.json"])
    IN [svelte |-> "./dist/index.js",
        scripts |-> IF cfg.includeExample THEN Spread(scripts, ExampleScripts)
                    ELSE scripts,
        files |-> <<"dist", "!dist/**/*.test.*">>]

VanillaPackageJsonExtras(cfg) ==
    LET scripts ==
            Spread(LintScripts,
                   [format |-> "prettier --write src"]
                   @@ ("format:check" :> "prettier --check src"))
        extras ==
            [scripts |-> IF cfg.includeExample
                         THEN Spread(scripts, ExampleScripts) ELSE scripts]
    IN IF cfg.runtimeTarget = "node" \/ cfg.runtimeTarget = "universal"
       THEN Spread(extras, [engines |-> [node |-> ">=18.0.0"]])
       ELSE extras

LitWidgetsPackageJsonExtras(cfg) == EmptyObject

GetFrameworkPackageJsonExtras(g, cfg) ==
    CASE g = "reactGenerator" -> ReactPackageJsonExtras(cfg)
      [] g = "nodeGenerator" -> NodePackageJsonExtras(cfg)
      [] g = "vueGenerator" -> VuePackageJsonExtras(cfg)
      [] g = "svelteGenerator" -> SveltePackageJsonExtras(cfg)
      [] g = "vanillaGenerator" -> VanillaPackageJsonExtras(cfg)
      [] g = LitWidgets -> LitWidgetsPackageJsonExtras(cfg)

GetPackageJsonExtras(g, cfg) ==
    Spread(GetCommonPackageJsonExtras(cfg), GetFrameworkPackageJsonExtras(g, cfg))

(***************************************************************************)
(* groupDependencies, getBuildScript, getDevScript, generatePackageJson    *)
(***************************************************************************)
GroupDependenciesAnyKind(deps, type) ==
    LET names == {deps[i].name : i \in 1..Len(deps)}
        LastOf(n) == CHOOSE i \in 1..Len(deps) :
                        /\ deps[i].name = n
                        /\ \A j \in (i + 1)..Len(deps) : deps[j].name # n
    IN [n \in names |-> deps[LastOf(n)].version]

\* the first spec of a name is kept, later ones of that name are ignored
GroupDependenciesKeepFirst(deps, type) ==
    LET OfType(d) == d.type = type
        kept == SelectSeq(deps, OfType)
        names == {kept[i].name : i \in 1..Len(kept)}
        FirstOf(n) == CHOOSE i \in 1..Len(kept) :
                         /\ kept[i].name = n
                         /\ \A j \in 1..(i - 1) : kept[j].name # n
    IN [n \in names |-> kept[FirstOf(n)].version]

GroupDependencies(deps, type) ==
    LET OfType(d) == d.type = type
        kept == SelectSeq(deps, OfType)
        names == {kept[i].name : i \in 1..Len(kept)}
        LastOf(n) == CHOOSE i \in 1..Len(kept) :
                        /\ kept[i].name = n
                        /\ \A j \in (i + 1)..Len(kept) : kept[j].name # n
    IN [n \in names |-> kept[LastOf(n)].version]

GetBuildScript(buildSystem) ==
    CASE buildSystem = "tsup" -> "tsup"
      [] buildSystem = "vite" -> "vite build"
      [] buildSystem = "rollup" -> "rollup -c"
      [] buildSystem = "unbuild" -> "unbuild"
      [] buildSystem = "esbuild" ->
            "esbuild src/index.ts --bundle --outdir=dist --format=esm"
      [] OTHER -> "tsc"

GetDevScript(buildSystem) ==
    CASE buildSystem = "tsup" -> "tsup --watch"
      [] buildSystem = "vite" -> "vite build --watch"
      [] buildSystem = "rollup" -> "rollup -c -w"
      [] buildSystem = "unbuild" -> "unbuild --watch"
      [] buildSystem = "esbuild" ->
            "esbuild src/index.ts --bundle --outdir=dist --format=esm --watch"
      [] OTHER -> "tsc --watch"

\* the object stored under exportsField[exp.path]
ExportEntry(exp, cfg) ==
    IF cfg.moduleFormat = "dual" /\ Truthy(Prop(exp, "require"))
    THEN [types |-> Prop(exp, "types"), import |-> Prop(exp, "import"),
          require |-> Prop(exp, "require"),
          default |-> OrElse(Prop(exp, "default"), Prop(exp, "import"))]
    ELSE [types |-> Prop(exp, "types"), import |-> Prop(exp, "import"),
          default |-> OrElse(Prop(exp, "default"), Prop(exp, "import"))]

RECURSIVE ExportsField(_, _)
ExportsField(exports, cfg) ==
    IF exports = <<>> THEN EmptyObject
    ELSE LET n == Len(exports)
         IN Spread(ExportsField(SubSeq(exports, 1, n - 1), cfg),
                   exports[n].path :> ExportEntry(exports[n], cfg))

BaseScripts(cfg) ==
    [build |-> GetBuildScript(cfg.buildSystem),
     dev |-> GetDevScript(cfg.buildSystem),
     test |-> "vitest",
     typecheck |-> "tsc --noEmit",
     prepublishOnly |-> "npm run build"]
    @@ ("test:coverage" :> "vitest --coverage")

PackageJsonLiteralNoTypes(cfg, exportsField, mergedScripts, restExtras) ==
    Spread([name |-> cfg.name, version |-> "0.0.1",
            description |-> cfg.description, type |-> "module",
            main |-> "./dist/index.js", module |-> "./dist/index.js",
            exports |-> exportsField,
            files |-> <<"dist", "README.md", "LICENSE", "CHANGELOG.md">>,
            scripts |-> mergedScripts, keywords |-> <<>>,
            author |-> cfg.author, license |-> cfg.license,
            sideEffects |-> FALSE],
           restExtras)

\* const packageJson = { name: ..., ...restExtras }
PackageJsonLiteral(cfg, exportsField, mergedScripts, restExtras) ==
    Spread([name |-> cfg.name, version |-> "0.0.1",
            description |-> cfg.description, type |-> "module",
            main |-> "./dist/index.js", module |-> "./dist/index.js",
            types |-> "./dist/index.d.ts", exports |-> exportsField,
            files |-> <<"dist", "README.md", "LICENSE", "CHANGELOG.md">>,
            scripts |-> mergedScripts, keywords |-> <<>>,
            author |-> cfg.author, license |-> cfg.license,
            sideEffects |-> FALSE],
           restExtras)

\* if (Object.keys(section).length > 0) pkg[key] = section
WithSection(pkg, key, section) ==
    IF DOMAIN section # {} THEN Spread(pkg, key :> section)
    ELSE pkg

\* fs.writeJson: the JSON text of packageJson, as the object it parses to
WriteJson(pkg) ==
    [k \in DOMAIN pkg |->
        IF k = "exports"
        THEN [p \in DOMAIN pkg[k] |-> JsonObject(pkg[k][p])]
        ELSE pkg[k]]

\* the content generatePackageJson writes to <outDir>/package.json
GeneratePackageJson(g, cfg) ==
    LET deps == GetDependencies(g, cfg)
        exports == GetExports(g, cfg)
        extras == GetPackageJsonExtras(g, cfg)
        exportsField == ExportsField(exports, cfg)
        extraScripts == IF "scripts" \in DOMAIN extras THEN extras.scripts
                        ELSE EmptyObject
        mergedScripts == Spread(BaseScripts(cfg), extraScripts)
        restExtras == Rest(extras, "scripts")
        literal == PackageJsonLiteral(cfg, exportsField, mergedScripts, restExtras)
        withRepository ==
            IF Truthy(cfg.repository)
            THEN Spread(literal,
                        [repository |-> [type |-> "git", url |-> cfg.repository]])
            ELSE literal
        withDeps ==
            WithSection(
              WithSection(
                WithSection(
                  WithSection(withRepository, "dependencies",
                              GroupDependencies(deps, "dependency")),
                  "devDependencies", GroupDependencies(deps, "devDependency")),
                "peerDependencies", GroupDependencies(deps, "peerDependency")),
              "optionalDependencies",
              GroupDependencies(deps, "optionalDependency"))
    IN WriteJson(withDeps)

(***************************************************************************)
(* TemplateEngine: the compiled-template cache over the templates          *)
(* directory, and the orchestrator's render of one template-backed file    *)
(***************************************************************************)
\* a template reference is a string, here its tokens, cut at every '/'
CommonTsconfig == <<"common", "/", "tsconfig.json.hbs">>

ReactTsconfig == <<"react", "/", "tsconfig.json.hbs">>

CommonReactTsconfig == <<"common", "/", "react", "/", "tsconfig.json.hbs">>

ReactReactTsconfig == <<"react", "/", "react", "/", "tsconfig.json.hbs">>

TemplateRefs ==
    {CommonTsconfig, ReactTsconfig, CommonReactTsconfig, ReactReactTsconfig}

\* the file specs generatePackage renders here: the framework tag of the run
\* and the spec's template reference
TemplateRequests ==
    {[framework |-> "react", template |-> CommonTsconfig],
     [framework |-> "react", template |-> CommonReactTsconfig]}

\* the text of a template file: two that compile and render, one that
\* Handlebars cannot parse
TemplateBodies == {"v1", "v2", "malformed"}

\* the templates directory as the package ships it
ShippedTemplates == [ref \in {CommonTsconfig} |-> "v1"]

\* new Map()
EmptyCache == [ref \in {} |-> Undefined]

OccursAt(str, pattern, i) ==
    /\ i + Len(pattern) - 1 <= Len(str)
    /\ SubSeq(str, i, i + Len(pattern) - 1) = pattern

\* String.prototype.replace with a string pattern: the first occurrence only,
\* wherever it is
Replace(str, pattern, replacement) ==
    IF \E i \in 1..Len(str) : OccursAt(str, pattern, i)
    THEN LET first == CHOOSE i \in 1..Len(str) :
                         /\ OccursAt(str, pattern, i)
                         /\ \A j \in 1..(i - 1) : ~OccursAt(str, pattern, j)
         IN SubSeq(str, 1, first - 1) \o replacement
               \o SubSeq(str, first + Len(pattern), Len(str))
    ELSE str

\* const alternatePaths = [...]
AlternatePaths(fw, template) ==
    <<(<<fw, "/">>
         \o Replace(Replace(template, <<fw, "/">>, <<>>), <<"common", "/">>, <<>>)),
      Replace(template, <<fw, "/">>, <<>>)>>

TemplateNotFound(ref) == <<"Template not found: ">> \o ref

\* the error the compiled template throws when its text does not parse
ParseError == <<"Parse error on line 1">>

\* the file is read and compiled on every call, the cache is only written
LoadTemplateUncached(c, disk, templatePath) ==
    IF templatePath \notin DOMAIN disk
    THEN [ok |-> FALSE, cache |-> c, error |-> TemplateNotFound(templatePath)]
    ELSE LET compiled == [source |-> disk[templatePath]]
         IN [ok |-> TRUE, cache |-> (templatePath :> compiled) @@ c,
             compiled |-> compiled]

\* loadTemplate against cache c and templates directory disk: the cache after
\* the call, and the compiled template or the error thrown
LoadTemplate(c, disk, templatePath) ==
    IF templatePath \in DOMAIN c
    THEN [ok |-> TRUE, cache |-> c, compiled |-> c[templatePath]]
    ELSE IF templatePath \notin DOMAIN disk
    THEN [ok |-> FALSE, cache |-> c, error |-> TemplateNotFound(templatePath)]
    ELSE LET compiled == [source |-> disk[templatePath]]
         IN [ok |-> TRUE, cache |-> (templatePath :> compiled) @@ c,
             compiled |-> compiled]

\* template(context): Handlebars parses on the first call of the compiled
\* function, so a text that does not parse throws here, after cache.set
Apply(compiled) ==
    IF compiled.source = "malformed"
    THEN [error |-> ParseError, content |-> <<>>]
    ELSE [error |-> <<>>, content |-> <<"rendered", compiled.source>>]

\* templateEngine.render
TemplateEngineRender(c, disk, templatePath) ==
    LET loaded == LoadTemplate(c, disk, templatePath)
    IN IF loaded.ok
       THEN [cache |-> loaded.cache, error |-> Apply(loaded.compiled).error,
             content |-> Apply(loaded.compiled).content]
       ELSE [cache |-> loaded.cache, error |-> loaded.error, content |-> <<>>]

\* only a missing template is retried, any other error is rethrown as it is
RenderTemplateFileRethrow(c, disk, fw, template) ==
    LET alternatePaths == AlternatePaths(fw, template)
        original == TemplateEngineRender(c, disk, template)
        second == TemplateEngineRender(original.cache, disk, alternatePaths[1])
        third == TemplateEngineRender(second.cache, disk, alternatePaths[2])
    IN IF original.error = <<>> \/ original.error # TemplateNotFound(template)
       THEN original @@ [tried |-> <<template>>]
       ELSE IF second.error = <<>>
       THEN second @@ [tried |-> <<template, alternatePaths[1]>>]
       ELSE IF third.error = <<>>
       THEN third @@ [tried |-> <<template>> \o alternatePaths]
       ELSE [cache |-> third.cache, error |-> TemplateNotFound(template),
             content |-> <<>>, tried |-> <<template>> \o alternatePaths]

\* generatePackage, the isTemplate branch of the file loop: render the
\* reference, on any error the alternates in order, throw when none renders
RenderTemplateFile(c, disk, fw, template) ==
    LET alternatePaths == AlternatePaths(fw, template)
        original == TemplateEngineRender(c, disk, template)
        second == TemplateEngineRender(original.cache, disk, alternatePaths[1])
        third == TemplateEngineRender(second.cache, disk, alternatePaths[2])
    IN IF original.error = <<>>
       THEN original @@ [tried |-> <<template>>]
       ELSE IF second.error = <<>>
       THEN second @@ [tried |-> <<template, alternatePaths[1]>>]
       ELSE IF third.error = <<>>
       THEN third @@ [tried |-> <<template>> \o alternatePaths]
       ELSE [cache |-> third.cache, error |-> TemplateNotFound(template),
             content |-> <<>>, tried |-> <<template>> \o alternatePaths]

(***************************************************************************)
(* State                                                                   *)
(***************************************************************************)
NotYet == [pending |-> TRUE]

NoCall == [op |-> "none", arg |-> Undefined, ret |-> FALSE, warned |-> FALSE]

Init ==
    /\ generators = <<>>
    /\ frameworkMap = <<>>
    /\ regSeq = <<>>
    /\ lastCall = NoCall
    /\ pc = "idle"
    /\ framework = Undefined
    /\ config = NotYet
    /\ generator = Undefined
    /\ validation = NotYet
    /\ files = <<>>
    /\ warnings = <<>>
    /\ fileIdx = 0
    /\ fsLog = <<>>
    /\ hookCalls = 0
    /\ hookError = <<>>
    /\ result = NotYet
    /\ subject = NotYet
    /\ exportsRet = <<>>
    /\ depsRet = <<>>
    /\ packageJson = NotYet
    /\ now = [year |-> 0, day |-> 0]
    /\ runA = NotYet
    /\ runB = NotYet
    /\ templateFiles = ShippedTemplates
    /\ cache = EmptyCache
    /\ lastRender = NotYet

\* the registry is populated and torn down between generation runs
NoRunInProgress == pc = "idle"

\* history: a registration replaces the live registration of the same id
LiveRegister(rs, g) ==
    LET Keep(x) == Meta(x).id # Meta(g).id IN Append(SelectSeq(rs, Keep), g)

LiveUnregister(rs, id) ==
    LET Keep(x) == Meta(x).id # id IN SelectSeq(rs, Keep)

(***************************************************************************)
(* Registry operations                                                     *)
(***************************************************************************)
Register(g) ==
    /\ NoRunInProgress
    /\ Len(GetByFramework(Meta(g).framework)) < MaxBucket
    /\ LET reg == RegistryRegister(TheRegistry, g)
       IN /\ generators' = reg.generators
          /\ frameworkMap' = reg.frameworkMap
    /\ regSeq' = LiveRegister(regSeq, g)
    /\ lastCall' = [op |-> "register", arg |-> g, ret |-> FALSE,
                    warned |-> Has(Meta(g).id)]
    /\ UNCHANGED <<runVars, sideVars>>

Unregister(id) ==
    /\ NoRunInProgress
    /\ LET r == RegistryUnregister(TheRegistry, id)
       IN /\ generators' = r.reg.generators
          /\ frameworkMap' = r.reg.frameworkMap
          /\ lastCall' = [op |-> "unregister", arg |-> id, ret |-> r.ret,
                          warned |-> FALSE]
    /\ regSeq' = LiveUnregister(regSeq, id)
    /\ UNCHANGED <<runVars, sideVars>>

Clear ==
    /\ NoRunInProgress
    /\ LET reg == RegistryClear(TheRegistry)
       IN /\ generators' = reg.generators
          /\ frameworkMap' = reg.frameworkMap
    /\ regSeq' = <<>>
    /\ lastCall' = [op |-> "clear", arg |-> Undefined, ret |-> FALSE,
                    warned |-> FALSE]
    /\ UNCHANGED <<runVars, sideVars>>

\* generators/index.ts: the five register calls, in order
BuiltinOrder ==
    <<"reactGenerator", "vueGenerator", "svelteGenerator", "vanillaGenerator",
      "nodeGenerator">>

RECURSIVE RegisterAll(_, _)
RegisterAll(reg, gs) ==
    IF gs = <<>> THEN reg
    ELSE RegisterAll(RegistryRegister(reg, Head(gs)), Tail(gs))

RECURSIVE LiveRegisterAll(_, _)
LiveRegisterAll(rs, gs) ==
    IF gs = <<>> THEN rs
    ELSE LiveRegisterAll(LiveRegister(rs, Head(gs)), Tail(gs))

InitializeGenerators ==
    /\ NoRunInProgress
    /\ \A i \in 1..Len(BuiltinOrder) :
          Len(GetByFramework(Meta(BuiltinOrder[i]).framework)) < MaxBucket
    /\ LET reg == RegisterAll(TheRegistry, BuiltinOrder)
       IN /\ generators' = reg.generators
          /\ frameworkMap' = reg.frameworkMap
    /\ regSeq' = LiveRegisterAll(regSeq, BuiltinOrder)
    /\ lastCall' = [op |-> "register", arg |-> "nodeGenerator", ret |-> FALSE,
                    warned |-> Has(Meta("nodeGenerator").id)]
    /\ UNCHANGED <<runVars, sideVars>>

(***************************************************************************)
(* generatePackage                                                         *)
(***************************************************************************)
Failure(fs, ws, err) ==
    [success |-> FALSE, files |-> fs, warnings |-> ws, error |-> err,
     nextSteps |-> <<>>]

\* the steps are left out of the success result
SuccessWithoutNextSteps(fs, ws, cfg) ==
    [success |-> TRUE, files |-> fs, warnings |-> ws, nextSteps |-> <<>>]

Success(fs, ws, cfg) ==
    [success |-> TRUE, files |-> fs, warnings |-> ws,
     nextSteps |-> GenerateNextSteps(cfg)]

\* the catch block of generatePackage
CatchResultNoFiles(fs, ws, err) == Failure(<<>>, ws, err)

CatchResult(fs, ws, err) == Failure(fs, ws, err)

\* error.message of a failed fs-extra call
FsError(op, path) == <<"EACCES: permission denied, ", op, " ">> \o path

StartRun(fw, cfg) ==
    /\ NoRunInProgress
    /\ pc' = "resolve"
    /\ framework' = fw
    /\ config' = cfg
    /\ generator' = Undefined
    /\ validation' = NotYet
    /\ files' = <<>>
    /\ warnings' = <<>>
    /\ fileIdx' = 0
    /\ fsLog' = <<>>
    /\ hookCalls' = 0
    /\ hookError' = <<>>
    /\ result' = NotYet
    /\ UNCHANGED <<registryVars, sideVars>>

\* a caller invokes generatePackage(framework, config)
GeneratePackage ==
    /\ NoRunInProgress
    /\ \E fw \in RequestedFrameworks, cfg \in Configs : StartRun(fw, cfg)

ResolveEnsureDirFirst ==
    /\ pc = "resolve"
    /\ generator' = GetPrimary(framework)
    /\ fsLog' = Append(fsLog, <<"ensureDir", <<>>>>)
    /\ IF generator' = Undefined
       THEN /\ result' = Failure(<<>>, <<>>,
                                 <<"No generator found for framework: ", framework>>)
            /\ pc' = "done"
       ELSE /\ pc' = "validate"
            /\ UNCHANGED result
    /\ UNCHANGED <<framework, config, validation, files, warnings, fileIdx,
                   hookCalls, hookError>>
    /\ UNCHANGED <<registryVars, sideVars>>

\* the lookup takes the generator out of the registry
ResolveTakesGenerator ==
    /\ pc = "resolve"
    /\ generator' = GetPrimary(framework)
    /\ IF generator' = Undefined
       THEN /\ result' = Failure(<<>>, <<>>,
                                 <<"No generator found for framework: ", framework>>)
            /\ pc' = "done"
            /\ UNCHANGED registryVars
       ELSE /\ pc' = "validate"
            /\ LET reg == RegistryUnregister(TheRegistry, Meta(generator').id).reg
               IN /\ generators' = reg.generators
                  /\ frameworkMap' = reg.frameworkMap
            /\ UNCHANGED <<regSeq, lastCall, result>>
    /\ UNCHANGED <<framework, config, validation, files, warnings, fileIdx,
                   fsLog, hookCalls, hookError>>
    /\ UNCHANGED sideVars

Resolve ==
    /\ pc = "resolve"
    /\ generator' = GetPrimary(framework)
    /\ IF generator' = Undefined
       THEN /\ result' = Failure(<<>>, <<>>,
                                 <<"No generator found for framework: ", framework>>)
            /\ pc' = "done"
       ELSE /\ pc' = "validate"
            /\ UNCHANGED result
    /\ UNCHANGED <<framework, config, validation, files, warnings, fileIdx,
                   fsLog, hookCalls, hookError>>
    /\ UNCHANGED <<registryVars, sideVars>>

ValidateStepDropWarnings ==
    /\ pc = "validate"
    /\ validation' = Validate(generator, config)
    /\ IF ~validation'.valid
       THEN /\ result' = Failure(<<>>, <<>>,
                  JoinLines(Messages(SelectSeq(validation'.issues, IsError))))
            /\ pc' = "done"
       ELSE /\ pc' = "ensureDir"
            /\ UNCHANGED result
    /\ UNCHANGED <<framework, config, generator, files, warnings, fileIdx, fsLog,
                   hookCalls, hookError>>
    /\ UNCHANGED <<registryVars, sideVars>>

ValidateStep ==
    /\ pc = "validate"
    /\ validation' = Validate(generator, config)
    /\ IF ~validation'.valid
       THEN /\ result' = Failure(<<>>, <<>>,
                  JoinLines(Messages(SelectSeq(validation'.issues, IsError))))
            /\ pc' = "done"
            /\ UNCHANGED warnings
       ELSE /\ warnings' = warnings
                  \o Messages(SelectSeq(validation'.issues, IsWarning))
            /\ pc' = "ensureDir"
            /\ UNCHANGED result
    /\ UNCHANGED <<framework, config, generator, files, fileIdx, fsLog, hookCalls, hookError>>
    /\ UNCHANGED <<registryVars, sideVars>>

EnsureOutDirThenManifest ==
    /\ pc = "ensureDir"
    /\ \E ok \in BOOLEAN :
          IF ok
          THEN /\ fsLog' = Append(fsLog, <<"ensureDir", <<>>>>)
               /\ fileIdx' = 1
               /\ pc' = "manifest"
               /\ UNCHANGED result
          ELSE /\ result' = CatchResult(files, warnings, FsError("mkdir", <<>>))
               /\ pc' = "done"
               /\ UNCHANGED <<fsLog, fileIdx>>
    /\ UNCHANGED <<framework, config, generator, validation, files, warnings,
                   hookCalls, hookError>>
    /\ UNCHANGED <<registryVars, sideVars>>

EnsureOutDir ==
    /\ pc = "ensureDir"
    /\ \E ok \in BOOLEAN :
          IF ok
          THEN /\ fsLog' = Append(fsLog, <<"ensureDir", <<>>>>)
               /\ fileIdx' = 1
               /\ pc' = IF Len(GetFiles(generator, config)) = 0
                        THEN "manifest" ELSE "files"
               /\ UNCHANGED result
          ELSE /\ result' = CatchResult(files, warnings, FsError("mkdir", <<>>))
               /\ pc' = "done"
               /\ UNCHANGED <<fsLog, fileIdx>>
    /\ UNCHANGED <<framework, config, generator, validation, files, warnings,
                   hookCalls, hookError>>
    /\ UNCHANGED <<registryVars, sideVars>>

FileOutcomes == {"written", "mkdirFailed", "templateNotFound", "writeFailed"}

GenerateFile ==
    /\ pc = "files"
    /\ LET filesToGenerate == GetFiles(generator, config)
           file == filesToGenerate[fileIdx]
           last == fileIdx = Len(filesToGenerate)
           mkdir == <<"ensureDir", Dirname(file.path)>>
           render == IF file.isTemplate THEN << <<"render", file.template>> >>
                     ELSE <<>>
       IN IF Skipped(file, config)
          THEN /\ fileIdx' = fileIdx + 1
               /\ pc' = IF last THEN "manifest" ELSE "files"
               /\ UNCHANGED <<files, fsLog, result>>
          ELSE \E outcome \in FileOutcomes :
                 CASE outcome = "written" ->
                        /\ fsLog' = fsLog \o <<mkdir>> \o render
                                        \o << <<"writeFile", file.path>> >>
                        /\ files' = Append(files, file.path)
                        /\ fileIdx' = fileIdx + 1
                        /\ pc' = IF last THEN "manifest" ELSE "files"
                        /\ UNCHANGED result
                   [] outcome = "mkdirFailed" ->
                        /\ result' = CatchResult(files, warnings,
                                         FsError("mkdir", Dirname(file.path)))
                        /\ pc' = "done"
                        /\ UNCHANGED <<files, fsLog, fileIdx>>
                   [] outcome = "templateNotFound" ->
                        /\ file.isTemplate
                        /\ fsLog' = fsLog \o <<mkdir>> \o render
                        /\ result' = CatchResult(files, warnings,
                                         <<"Template not found: ">> \o file.template)
                        /\ pc' = "done"
                        /\ UNCHANGED <<files, fileIdx>>
                   [] outcome = "writeFailed" ->
                        /\ fsLog' = fsLog \o <<mkdir>> \o render
                        /\ result' = CatchResult(files, warnings,
                                         FsError("open", file.path))
                        /\ pc' = "done"
                        /\ UNCHANGED <<files, fileIdx>>
    /\ UNCHANGED <<framework, config, generator, validation, warnings, hookCalls, hookError>>
    /\ UNCHANGED <<registryVars, sideVars>>

\* generatePackageJson, as far as its filesystem effect
WriteManifest ==
    /\ pc = "manifest"
    /\ \E ok \in BOOLEAN :
          IF ok
          THEN /\ fsLog' = Append(fsLog, <<"writeJson", <<"package.json">>>>)
               /\ pc' = "hook"
               /\ UNCHANGED result
          ELSE /\ result' = CatchResult(files, warnings,
                                FsError("open", <<"package.json">>))
               /\ pc' = "done"
               /\ UNCHANGED fsLog
    /\ UNCHANGED <<framework, config, generator, validation, files, warnings,
                   fileIdx, hookCalls, hookError>>
    /\ UNCHANGED <<registryVars, sideVars>>

\* BaseGenerator.postGenerate is defined for every built-in and does nothing;
\* the plug-in overrides it with a step that can throw
LitWidgetsHookError == <<"custom-elements analysis failed">>

PostGenerateOutcomes(g) ==
    IF g = LitWidgets THEN {<<>>, LitWidgetsHookError} ELSE {<<>>}

\* a thrown hook is taken for a return: the success result stands
PostGenerateSwallow ==
    /\ pc = "hook"
    /\ hookCalls' = hookCalls + 1
    /\ \E thrown \in PostGenerateOutcomes(generator) : hookError' = thrown
    /\ result' = Success(files, warnings, config)
    /\ pc' = "done"
    /\ UNCHANGED <<framework, config, generator, validation, files, warnings,
                   fileIdx, fsLog>>
    /\ UNCHANGED <<registryVars, sideVars>>

\* await generator.postGenerate(config, result) inside the try, then either
\* return result or the catch block's failure result
PostGenerate ==
    /\ pc = "hook"
    /\ hookCalls' = hookCalls + 1
    /\ \E thrown \in PostGenerateOutcomes(generator) :
          /\ hookError' = thrown
          /\ result' = IF thrown = <<>>
                       THEN Success(files, warnings, config)
                       ELSE CatchResult(files, warnings, thrown)
    /\ pc' = "done"
    /\ UNCHANGED <<framework, config, generator, validation, files, warnings,
                   fileIdx, fsLog>>
    /\ UNCHANGED <<registryVars, sideVars>>

\* the caller has consumed the result; the run's locals are gone
Return ==
    /\ pc = "done"
    /\ pc' = "idle"
    /\ framework' = Undefined
    /\ config' = NotYet
    /\ generator' = Undefined
    /\ validation' = NotYet
    /\ files' = <<>>
    /\ warnings' = <<>>
    /\ fileIdx' = 0
    /\ fsLog' = <<>>
    /\ hookCalls' = 0
    /\ hookError' = <<>>
    /\ result' = NotYet
    /\ UNCHANGED <<registryVars, sideVars>>

(***************************************************************************)
(* generatePackageJson on its own: the generator's answers and the         *)
(* manifest synthesized from them, for one generator and configuration     *)
(***************************************************************************)
ManifestGenerators == BuiltinGenerators \cup {LitWidgets}

\* plain, blank, and scoped package names
ManifestNames == {<<"a">>, <<" ">>, <<"@", "s", "/", "a">>}

ModuleFormats == {"esm", "cjs", "dual"}

ManifestConfigs ==
    [name : ManifestNames, outDir : {<<"a">>}, description : {"demo"},
     author : {"me"}, license : {"MIT"},
     repository : {Undefined, "https://example.com/r.git"},
     packageType : PackageTypes, runtimeTarget : RuntimeTargets,
     moduleFormat : ModuleFormats, buildSystem : BuildSystems,
     packageManager : {"npm"}, includeExample : BOOLEAN]

HasSubject == "generator" \in DOMAIN subject

ManifestWritten == "pending" \notin DOMAIN packageJson

\* generatePackageJson reads the generator's dependencies and exports
CallGenerator ==
    /\ ~HasSubject
    /\ \E g \in ManifestGenerators, cfg \in ManifestConfigs :
          /\ subject' = [generator |-> g, config |-> cfg]
          /\ exportsRet' = GetExports(g, cfg)
          /\ depsRet' = GetDependencies(g, cfg)
    /\ UNCHANGED <<packageJson, registryVars, runVars, engineVars, repeatVars>>

\* generatePackage reaches generatePackageJson only with a configuration
\* the generator's validate accepted
WritePackageJson ==
    /\ HasSubject
    /\ ~ManifestWritten
    /\ Validate(subject.generator, subject.config).valid
    /\ packageJson' = GeneratePackageJson(subject.generator, subject.config)
    /\ UNCHANGED <<subject, exportsRet, depsRet, registryVars, runVars, engineVars,
                   repeatVars>>

Discard ==
    /\ HasSubject
    /\ subject' = NotYet
    /\ exportsRet' = <<>>
    /\ depsRet' = <<>>
    /\ packageJson' = NotYet
    /\ UNCHANGED <<registryVars, runVars, engineVars, repeatVars>>

(***************************************************************************)
(* Two runs of generatePackage with the same arguments, each into an       *)
(* emptied output directory, every filesystem call succeeding.  The clock  *)
(* may advance between them.                                               *)
(***************************************************************************)
\* new Date().toISOString().split('T')[0]
IsoDate(clock) == <<clock.year, clock.day>>

BuildTemplateContext(cfg, g, clock) ==
    Spread(
      Spread(
        Spread(cfg,
               [year |-> clock.year, date |-> IsoDate(clock),
                cliVersion |-> "1.0.0-alpha.1",
                dependencies |-> GroupDependencies(GetDependencies(g, cfg),
                                                   "dependency"),
                devDependencies |-> GroupDependencies(GetDependencies(g, cfg),
                                                      "devDependency"),
                peerDependencies |-> GroupDependencies(GetDependencies(g, cfg),
                                                       "peerDependency"),
                optionalDependencies |->
                    GroupDependencies(GetDependencies(g, cfg),
                                      "optionalDependency"),
                exports |-> GetExports(g, cfg)]),
        GetPackageJsonExtras(g, cfg)),
      [framework |-> Meta(g).framework, generatorId |-> Meta(g).id])

\* the context properties a template body reads: year is there for the
\* license text; every configuration-derived property may be read by any
\* template
TemplateReads(template, context) ==
    IF template = <<"common", "LICENSE.hbs">>
    THEN DOMAIN context \ {"date"}
    ELSE DOMAIN context \ {"year", "date"}

\* templateEngine.render: the compiled template applied to the context
Render(template, context) ==
    [template |-> template,
     context |-> [k \in TemplateReads(template, context) |-> context[k]]]

\* formatContent: Prettier's output for the content, the parser chosen by
\* the file name
FormatContent(content, filePath) == <<"formatted", Basename(filePath), content>>

\* the directory tree a run leaves in an emptied output directory
GenerateTree(g, cfg, clock) ==
    LET context == BuildTemplateContext(cfg, g, clock)
        Included(file) == ~Skipped(file, cfg)
        specs == SelectSeq(GetFiles(g, cfg), Included)
        LastAt(p) == CHOOSE i \in 1..Len(specs) :
                        /\ specs[i].path = p
                        /\ \A j \in (i + 1)..Len(specs) : specs[j].path # p
        Content(file) == IF file.isTemplate THEN Render(file.template, context)
                         ELSE file.template
    IN [p \in {specs[i].path : i \in 1..Len(specs)} \cup {<<"package.json">>} |->
          IF p = <<"package.json">> THEN GeneratePackageJson(g, cfg)
          ELSE FormatContent(Content(specs[LastAt(p)]), p)]

RepeatConfigs ==
    [name : {<<"a">>}, outDir : {<<"a">>}, description : {"demo"},
     author : {"me"}, license : {"MIT"}, repository : {Undefined},
     packageType : PackageTypes, runtimeTarget : RuntimeTargets,
     moduleFormat : {"esm"}, buildSystem : BuildSystems,
     packageManager : {"npm"}, includeExample : BOOLEAN]

RanOnce == "tree" \in DOMAIN runA

RanTwice == "tree" \in DOMAIN runB

\* time passes: the next day of the same year, or the first day of the next
Tick ==
    /\ \/ /\ now.day < MaxTicks
          /\ now' = [now EXCEPT !.day = @ + 1]
       \/ /\ now.year < MaxTicks
          /\ now' = [year |-> now.year + 1, day |-> 0]
    /\ UNCHANGED <<registryVars, runVars, engineVars, manifestVars, runA, runB>>

FirstRun ==
    /\ ~RanOnce
    /\ \E fw \in Frameworks, cfg \in RepeatConfigs :
          LET g == GetPrimary(fw)
          IN /\ g # Undefined
             /\ Validate(g, cfg).valid
             /\ runA' = [framework |-> fw, config |-> cfg, at |-> now,
                         tree |-> GenerateTree(g, cfg, now)]
    /\ UNCHANGED <<registryVars, runVars, engineVars, manifestVars, now, runB>>

SecondRun ==
    /\ RanOnce
    /\ ~RanTwice
    /\ LET g == GetPrimary(runA.framework)
       IN runB' = [at |-> now, tree |-> GenerateTree(g, runA.config, now)]
    /\ UNCHANGED <<registryVars, runVars, engineVars, manifestVars, now, runA>>

Forget ==
    /\ RanTwice
    /\ runA' = NotYet
    /\ runB' = NotYet
    /\ UNCHANGED <<registryVars, runVars, engineVars, manifestVars, now>>

(***************************************************************************)
(* The template engine singleton over a templates directory that changes   *)
(***************************************************************************)
\* what the templates directory holds at a reference
OnDisk(ref) == IF ref \in DOMAIN templateFiles THEN templateFiles[ref] ELSE "absent"

\* a template file is created or rewritten under the templates directory
WriteTemplate(ref, body) ==
    /\ Cardinality(DOMAIN templateFiles \cup {ref}) <= MaxTemplates
    /\ templateFiles' = (ref :> body) @@ templateFiles
    /\ UNCHANGED <<cache, lastRender>>
    /\ UNCHANGED <<registryVars, runVars, manifestVars, repeatVars>>

\* a template file is deleted
RemoveTemplate(ref) ==
    /\ ref \in DOMAIN templateFiles
    /\ templateFiles' = [r \in DOMAIN templateFiles \ {ref} |-> templateFiles[r]]
    /\ UNCHANGED <<cache, lastRender>>
    /\ UNCHANGED <<registryVars, runVars, manifestVars, repeatVars>>

\* templateEngine.render(ref, context)
RenderCall(ref) ==
    LET out == TemplateEngineRender(cache, templateFiles, ref)
    IN /\ cache' = out.cache
       /\ lastRender' = [framework |-> Undefined, template |-> ref,
                         tried |-> <<ref>>, error |-> out.error,
                         content |-> out.content, seen |-> OnDisk(ref)]
       /\ UNCHANGED templateFiles
       /\ UNCHANGED <<registryVars, runVars, manifestVars, repeatVars>>

\* the file loop of generatePackage reaches a template-backed file spec
RenderFile(request) ==
    LET out == RenderTemplateFile(cache, templateFiles, request.framework,
                                  request.template)
    IN /\ cache' = out.cache
       /\ lastRender' = [framework |-> request.framework,
                         template |-> request.template,
                         tried |-> out.tried, error |-> out.error,
                         content |-> out.content,
                         seen |-> OnDisk(request.template)]
       /\ UNCHANGED templateFiles
       /\ UNCHANGED <<registryVars, runVars, manifestVars, repeatVars>>

\* templateEngine.clearCache()
ClearCache ==
    /\ cache' = EmptyCache
    /\ UNCHANGED <<templateFiles, lastRender>>
    /\ UNCHANGED <<registryVars, runVars, manifestVars, repeatVars>>

(***************************************************************************)
(* Specifications                                                          *)
(***************************************************************************)
Next ==
    \/ InitializeGenerators
    \/ Clear
    \/ GeneratePackage
    \/ Resolve
    \/ ValidateStep
    \/ EnsureOutDir
    \/ GenerateFile
    \/ WriteManifest
    \/ PostGenerate
    \/ Return

Spec == Init /\ [][Next]_vars

NextRegistry ==
    \/ \E g \in RegistryPool : Register(g)
    \/ \E id \in RegistryIds : Unregister(id)
    \/ Clear

SpecRegistry == Init /\ [][NextRegistry]_vars

\* a plug-in is registered by the host program, then asked for by its tag
RegisterPlugin == Register(LitWidgets)

GeneratePackageWithPlugin ==
    /\ NoRunInProgress
    /\ \E cfg \in Configs : StartRun(Meta(LitWidgets).framework, cfg)

NextPlugin ==
    \/ RegisterPlugin
    \/ GeneratePackageWithPlugin
    \/ Resolve
    \/ ValidateStep
    \/ EnsureOutDir
    \/ GenerateFile
    \/ WriteManifest
    \/ PostGenerate
    \/ Return

SpecPlugin == Init /\ [][NextPlugin]_vars

NextManifest ==
    \/ CallGenerator
    \/ WritePackageJson
    \/ Discard

SpecManifest == Init /\ [][NextManifest]_vars

NextRepeat ==
    \/ InitializeGenerators
    \/ Tick
    \/ FirstRun
    \/ SecondRun
    \/ Forget

SpecRepeat == Init /\ [][NextRepeat]_vars

NextTemplates ==
    \/ \E ref \in TemplateRefs, body \in TemplateBodies : WriteTemplate(ref, body)
    \/ \E ref \in TemplateRefs : RemoveTemplate(ref)
    \/ \E ref \in TemplateRefs : RenderCall(ref)
    \/ \E request \in TemplateRequests : RenderFile(request)
    \/ ClearCache

SpecTemplates == Init /\ [][NextTemplates]_vars

(***************************************************************************)
(* Properties                                                              *)
(***************************************************************************)
Validated == "valid" \in DOMAIN validation

Blank(str) == str = <<>> \/ Trim(str) = <<>>

\* no generator returned by getAll() carries the framework tag
NoRegisteredGenerator(fw) ==
    \A i \in 1..Len(GetAll) : Meta(GetAll[i]).framework # fw

\* the relative paths the run has written under the output directory
WrittenPaths ==
    LET IsWrite(e) == e[1] \in {"writeFile", "writeJson"}
        writes == SelectSeq(fsLog, IsWrite)
    IN [i \in 1..Len(writes) |-> writes[i][2]]

NothingTouched == fsLog = <<>>

\* C1: for a framework tag with no registered generator, generatePackage
\* returns a failed result with no files and a non-empty error, and has
\* neither created the output directory nor written a file.
C1_UnknownFrameworkFails ==
    [][(pc = "resolve" /\ NoRegisteredGenerator(framework))
          => /\ pc' = "done"
             /\ result'.success = FALSE
             /\ result'.files = <<>>
             /\ result'.error # <<>>
             /\ NothingTouched']_vars

C1_Witness ==
    /\ pc = "done"
    /\ framework = "cobol"
    /\ Len(generators) > 0
    /\ NoRegisteredGenerator(framework)
    /\ result.success = FALSE
    /\ NothingTouched

\* C2: when the resolved generator's validate reports the configuration
\* invalid (always so for a blank name), generatePackage returns a failed
\* result whose error is the error-severity messages joined by newlines and
\* whose files list is empty, before any directory or file is created.
C2_InvalidConfigFails ==
    /\ (Validated /\ Blank(config.name))
          => /\ ~validation.valid
             /\ \E i \in 1..Len(validation.issues) :
                   /\ validation.issues[i].severity = "error"
                   /\ validation.issues[i].message = <<"Package name is required">>
    /\ (Validated /\ ~validation.valid)
          => /\ pc = "done"
             /\ result.success = FALSE
             /\ result.error =
                   JoinLines(Messages(SelectSeq(validation.issues, IsError)))
             /\ result.error # <<>>
             /\ result.files = <<>>
             /\ NothingTouched

C2_Witness ==
    /\ pc = "done"
    /\ Validated
    /\ config.name = <<" ">>
    /\ ~validation.valid
    /\ result.success = FALSE
    /\ NothingTouched

\* C3: a run that fails after validation passed returns success = false with
\* a non-empty error, its files list is exactly the files written before the
\* failure, and nothing that was written has been removed.
C3_PartialFailureReportsFiles ==
    (pc = "done" /\ Validated /\ validation.valid /\ ~result.success)
       => /\ result.error # <<>>
          /\ result.files = WrittenPaths
          /\ \A i \in 1..Len(fsLog) : fsLog[i][1] # "remove"

C3_Witness ==
    /\ pc = "done"
    /\ Validated
    /\ validation.valid
    /\ ~result.success
    /\ Len(result.files) > 0
    /\ result.files = WrittenPaths

\* C4: on a successful run the result's files list carries the relative path
\* of every file the run wrote, the manifest package.json included.
C4_FilesListCarriesEveryWrite ==
    (pc = "done" /\ result.success)
       => \A i \in 1..Len(WrittenPaths) : Includes(result.files, WrittenPaths[i])

\* the live registration of a framework that was made earliest
FirstLive(fw) ==
    LET OfFramework(g) == Meta(g).framework = fw
        live == SelectSeq(regSeq, OfFramework)
    IN IF live = <<>> THEN Undefined ELSE live[1]

\* C5: getPrimary(F) is the generator registered earliest among those
\* currently registered for F, and nothing when none is registered for F.
C5_PrimaryIsEarliestLive ==
    \A fw \in Frameworks : GetPrimary(fw) = FirstLive(fw)

\* C6: the two lookup structures agree: get(id) returns a generator iff it is
\* in the list of its own framework, it is there exactly once, and no
\* framework list holds a generator that get does not return.
C6_StructuresInSync ==
    /\ \A g \in RegistryPool :
          LET bucket == GetByFramework(Meta(g).framework)
          IN /\ (Get(Meta(g).id) = g) <=> Includes(bucket, g)
             /\ Includes(bucket, g) => SeqCount(bucket, g) = 1
    /\ \A fw \in Frameworks :
          \A i \in 1..Len(GetByFramework(fw)) :
             Get(Meta(GetByFramework(fw)[i]).id) = GetByFramework(fw)[i]

\* C7: getSupportedFrameworks() is exactly the framework tags that have a
\* non-empty getByFramework list, each once.
C7_SupportedFrameworksNonEmpty ==
    /\ SeqRange(GetSupportedFrameworks)
          = {fw \in Frameworks : Len(GetByFramework(fw)) > 0}
    /\ \A fw \in Frameworks : SeqCount(GetSupportedFrameworks, fw) <= 1

\* C8: unregister(id) returns true exactly when id was registered; after
\* true, get(id) is empty and no framework list holds a generator with that
\* id; after false the registry is unchanged.
C8_UnregisterContract ==
    [][\A id \in RegistryIds :
          (lastCall'.op = "unregister" /\ lastCall'.arg = id)
             => /\ lastCall'.ret = Has(id)
                /\ lastCall'.ret
                      => /\ Get(id)' = Undefined
                         /\ \A fw \in Frameworks :
                               \A i \in 1..Len(GetByFramework(fw)') :
                                  Meta(GetByFramework(fw)'[i]).id # id
                /\ ~lastCall'.ret
                      => /\ generators' = generators
                         /\ frameworkMap' = frameworkMap]_vars

\* C9: registering a generator whose id is already registered replaces the
\* previous entry: get(id) returns the new generator and getAll() holds
\* exactly one generator with that id.
C9_ReRegisterReplaces ==
    (lastCall.op = "register" /\ lastCall.warned)
       => /\ Get(Meta(lastCall.arg).id) = lastCall.arg
          /\ Cardinality({i \in 1..Len(GetAll) :
                Meta(GetAll[i]).id = Meta(lastCall.arg).id}) = 1

C9_Witness ==
    /\ lastCall.op = "register"
    /\ lastCall.warned
    /\ lastCall.arg = "reactAlt"
    /\ Get("react-library") = "reactAlt"
    /\ Includes(GetByFramework("react"), "reactGenerator")

\* C10: for the React generator and runtimeTarget = node with every other
\* field valid, validate returns valid = true and at least one
\* warning-severity issue.
C10_ReactNodeTargetWarnsOnly ==
    (/\ Validated
     /\ generator = "reactGenerator"
     /\ config.runtimeTarget = "node"
     /\ ~Blank(config.name)
     /\ ~Blank(config.outDir)
     /\ Includes(Meta(generator).supportedPackageTypes, config.packageType))
       => /\ validation.valid
          /\ \E i \in 1..Len(validation.issues) :
                validation.issues[i].severity = "warning"

\* an error-severity issue carrying the given message is among the issues
HasError(issues, msg) ==
    \E i \in 1..Len(issues) : IsError(issues[i]) /\ issues[i].message = msg

\* C11: validate returns valid = true exactly when no returned issue has
\* error severity, and returns an error-severity issue for a blank name, for
\* a blank output directory, for a packageType outside the generator's
\* supported types and for a runtimeTarget outside its supported targets.
C11_ValidateVerdict ==
    Validated =>
       LET m == Meta(generator)
           issues == validation.issues
       IN /\ validation.valid <=> SelectSeq(issues, IsError) = <<>>
          /\ Blank(config.name)
                => HasError(issues, <<"Package name is required">>)
          /\ Blank(config.outDir)
                => HasError(issues, <<"Output directory is required">>)
          /\ ~Includes(m.supportedPackageTypes, config.packageType)
                => HasError(issues, <<"Package type \"", config.packageType,
                                      "\" is not supported by ", m.name>>)
          /\ ~Includes(m.supportedRuntimeTargets, config.runtimeTarget)
                => HasError(issues, <<"Runtime target \"", config.runtimeTarget,
                                      "\" is not supported by ", m.name>>)

C11_Witness ==
    /\ Validated
    /\ Blank(config.name)
    /\ Blank(config.outDir)
    /\ ~Includes(Meta(generator).supportedPackageTypes, config.packageType)
    /\ ~Includes(Meta(generator).supportedRuntimeTargets, config.runtimeTarget)
    /\ Len(SelectSeq(validation.issues, IsError)) = 4
    /\ ~validation.valid

\* C12: on every run whose configuration passed validation, the message of
\* each warning-severity validation issue is in the returned result's
\* warnings list, and the run fails only when a later step failed: once the
\* manifest is persisted the result is a success, warnings or not.
C12_WarningsSurfaceAndDoNotBlock ==
    (pc = "done" /\ Validated /\ validation.valid)
       => /\ \A i \in 1..Len(validation.issues) :
                IsWarning(validation.issues[i])
                   => Includes(result.warnings, validation.issues[i].message)
          /\ Includes(WrittenPaths, <<"package.json">>) => result.success

C12_Witness ==
    /\ pc = "done"
    /\ Validated
    /\ validation.valid
    /\ SelectSeq(validation.issues, IsWarning) # <<>>
    /\ result.success
    /\ result.warnings # <<>>

\* the entry of an export list that has the given path
ExportAt(exports, path) ==
    exports[CHOOSE i \in 1..Len(exports) : exports[i].path = path]

HasExportAt(exports, path) == \E i \in 1..Len(exports) : exports[i].path = path

\* C13: the root export entry ('.') returned by getExports, and the root
\* entry of the manifest's exports field, carry a require path exactly when
\* moduleFormat is dual.
C13_RequireIffDual ==
    /\ HasSubject
          => /\ HasExportAt(exportsRet, ".")
             /\ Truthy(Prop(ExportAt(exportsRet, "."), "require"))
                   <=> subject.config.moduleFormat = "dual"
    /\ ManifestWritten
          => /\ "." \in DOMAIN packageJson.exports
             /\ "require" \in DOMAIN packageJson.exports["."]
                   <=> subject.config.moduleFormat = "dual"

C13_Witness ==
    /\ ManifestWritten
    /\ subject.config.moduleFormat = "dual"
    /\ packageJson.exports["."].require = "./dist/index.cjs"
    /\ ExportAt(exportsRet, ".").require = "./dist/index.cjs"

\* the manifest section that carries the dependencies of a kind
SectionOf(kind) ==
    CASE kind = "dependency" -> "dependencies"
      [] kind = "devDependency" -> "devDependencies"
      [] kind = "peerDependency" -> "peerDependencies"
      [] kind = "optionalDependency" -> "optionalDependencies"

Rendered(file) == \E i \in 1..Len(fsLog) : fsLog[i] = <<"render", file.template>>

Wrote(file) == \E i \in 1..Len(fsLog) : fsLog[i] = <<"writeFile", file.path>>

\* C15: a file spec whose inclusion predicate evaluates false against the
\* run's configuration is skipped: its template is never rendered, nothing
\* is written at its path, and its path is not in the result's files list.
C15_FalseConditionSkips ==
    (Validated /\ validation.valid) =>
       LET specs == GetFiles(generator, config)
       IN \A i \in 1..Len(specs) :
             ("condition" \in DOMAIN specs[i]
                /\ ~Condition(specs[i].condition, config))
                => /\ ~Rendered(specs[i])
                   /\ ~Wrote(specs[i])
                   /\ ~Includes(files, specs[i].path)
                   /\ "files" \in DOMAIN result
                         => ~Includes(result.files, specs[i].path)

C15_Witness ==
    /\ pc = "done"
    /\ generator = LitWidgets
    /\ result.success
    /\ config.buildSystem = "vite"
    /\ ~config.includeExample
    /\ Includes(result.files, <<"src", "styles.css">>)
    /\ ~Includes(result.files, <<"example", "index.html">>)

\* C16: for the Node generator, packageType cli gives an extra export entry
\* for './bin' and a bin field in the manifest; packageType library gives
\* neither the './bin' export nor the bin field.
C16_NodeCliBin ==
    (HasSubject /\ subject.generator = "nodeGenerator") =>
       /\ subject.config.packageType = "cli"
             => /\ HasExportAt(exportsRet, "./bin")
                /\ ManifestWritten
                      => /\ "bin" \in DOMAIN packageJson
                         /\ "./bin" \in DOMAIN packageJson.exports
       /\ subject.config.packageType = "library"
             => /\ ~HasExportAt(exportsRet, "./bin")
                /\ ManifestWritten
                      => /\ "bin" \notin DOMAIN packageJson
                         /\ "./bin" \notin DOMAIN packageJson.exports

C16_Witness ==
    /\ ManifestWritten
    /\ subject.generator = "nodeGenerator"
    /\ subject.config.packageType = "cli"
    /\ subject.config.name = <<"@", "s", "/", "a">>
    /\ "bin" \in DOMAIN packageJson
    /\ packageJson.bin = (<<"a">> :> "./dist/bin/cli.js")
    /\ Len(exportsRet) = 2

\* C17: every manifest that is written, for every generator and
\* configuration, has the fields exports, types, sideEffects and files.
C17_ManifestShape ==
    ManifestWritten
       => {"exports", "types", "sideEffects", "files"} \subseteq DOMAIN packageJson

C17_Witness ==
    /\ ManifestWritten
    /\ subject.generator = "svelteGenerator"
    /\ packageJson.types = "./dist/index.d.ts"
    /\ packageJson.sideEffects = FALSE
    /\ packageJson.files = <<"dist", "!dist/**/*.test.*">>
    /\ "." \in DOMAIN packageJson.exports

\* an export entry that resolves neither an import nor a default path
Unresolvable(entry) ==
    ~Truthy(Prop(entry, "import")) /\ ~Truthy(Prop(entry, "default"))

\* C18: an export entry that carries neither an import path nor a default
\* path is rejected by validation, so no manifest is written from an export
\* list that holds one, and every entry of a written manifest's exports
\* field has an import or a default path.
C18_ExportEntriesResolve ==
    /\ (HasSubject /\ \E i \in 1..Len(exportsRet) : Unresolvable(exportsRet[i]))
          => /\ ~Validate(subject.generator, subject.config).valid
             /\ ~ManifestWritten
    /\ ManifestWritten
          => \A p \in DOMAIN packageJson.exports :
                ~Unresolvable(packageJson.exports[p])

\* C19: generatePackage run twice with the same framework and an identical
\* configuration, each time into an emptied output directory, writes the
\* same set of paths with identical contents.
C19_RepeatRunIdentical ==
    RanTwice
       => /\ DOMAIN runB.tree = DOMAIN runA.tree
          /\ \A p \in DOMAIN runA.tree : runB.tree[p] = runA.tree[p]

\* position in fsLog of the manifest write, 0 when it has not happened
ManifestAt ==
    LET at == {i \in 1..Len(fsLog) : fsLog[i] = <<"writeJson", <<"package.json">>>>}
    IN IF at = {} THEN 0 ELSE CHOOSE i \in at : TRUE

\* C20: within a run the steps come in the order resolve, validate, prepare
\* the output directory, generate files, write the manifest, post-generation
\* hook: nothing is created before a generator is resolved and the
\* configuration validated, the output directory is prepared first, the
\* manifest is written after every included file spec and is the last
\* write, and the hook runs at most once, only after the manifest is
\* persisted, never on a run that failed before it.
C20_StepOrder ==
    /\ Validated => generator # Undefined
    /\ fsLog # <<>>
          => /\ Validated
             /\ validation.valid
             /\ fsLog[1] = <<"ensureDir", <<>>>>
    /\ ManifestAt > 0
          => /\ ManifestAt = Len(fsLog)
             /\ LET specs == GetFiles(generator, config)
                IN \A i \in 1..Len(specs) :
                      ~Skipped(specs[i], config)
                         => \E j \in 1..(ManifestAt - 1) :
                               fsLog[j] = <<"writeFile", specs[i].path>>
    /\ hookCalls <= 1
    /\ hookCalls = 1 => ManifestAt > 0
    /\ (pc = "done" /\ ~result.success) => hookCalls = 0

C20_Witness ==
    /\ pc = "done"
    /\ hookCalls = 1
    /\ result.success
    /\ ManifestAt = Len(fsLog)
    /\ Len(result.files) = Len(GetFiles(generator, config))

\* the paths of the writeFile calls of the current run, in call order
FileWrites ==
    LET IsWriteFile(e) == e[1] = "writeFile"
        writes == SelectSeq(fsLog, IsWriteFile)
    IN [i \in 1..Len(writes) |-> writes[i][2]]

\* C21: within a run the files are written in the order getFiles declares
\* them, every common file before every framework-specific file, and the
\* result's files list is in that same order.
C21_WriteOrderIsDeclarationOrder ==
    (Validated /\ validation.valid) =>
       LET Included(file) == ~Skipped(file, config)
           common == SelectSeq(GetCommonFiles(config), Included)
           specific == SelectSeq(GetFrameworkFiles(generator, config), Included)
           declared == common \o specific
           writes == FileWrites
       IN /\ Len(writes) <= Len(declared)
          /\ writes = [k \in 1..Len(writes) |-> declared[k].path]
          /\ files = writes
          /\ "files" \in DOMAIN result => result.files = writes
          /\ (pc = "done" /\ result.success) => Len(writes) = Len(declared)

C21_Witness ==
    /\ pc = "done"
    /\ result.success
    /\ Len(result.files) > Len(GetCommonFiles(config))
    /\ result.files[1] = <<"tsconfig.json">>
    /\ result.files[Len(GetCommonFiles(config)) + 1] = <<"src", "index.ts">>
    /\ result.files = FileWrites

\* C22: when the generator's post-generation hook raises, generatePackage
\* returns a failed result whose error is the hook's message, and the files
\* and the manifest written before the hook are still on disk.
C22_HookFailureGivesFailedResult ==
    (pc = "done" /\ hookError # <<>>) =>
       /\ ~result.success
       /\ result.error = hookError
       /\ result.nextSteps = <<>>
       /\ result.files = FileWrites
       /\ Len(FileWrites) > 0
       /\ ManifestAt = Len(fsLog)
       /\ \A i \in 1..Len(fsLog) :
             fsLog[i][1] \in {"ensureDir", "render", "writeFile", "writeJson"}

C22_Witness ==
    /\ pc = "done"
    /\ hookCalls = 1
    /\ hookError = LitWidgetsHookError
    /\ ~result.success
    /\ Includes(result.files, <<"src", "index.ts">>)
    /\ ManifestAt > 0

\* a reference without the given prefix, or the reference itself when it does
\* not start with it
StripPrefix(ref, prefix) ==
    IF Len(ref) >= Len(prefix) /\ SubSeq(ref, 1, Len(prefix)) = prefix
    THEN SubSeq(ref, Len(prefix) + 1, Len(ref))
    ELSE ref

\* the alternates as stated: the framework tag joined with the reference
\* stripped of its framework prefix and of 'common/', then the reference
\* stripped of its framework prefix
StatedAlternates(fw, ref) ==
    <<(<<fw, "/">>
         \o StripPrefix(StripPrefix(ref, <<fw, "/">>), <<"common", "/">>)),
      StripPrefix(ref, <<fw, "/">>)>>

\* the text render(ref) would compile or reuse in the current state
SourceOf(ref) == IF ref \in DOMAIN cache THEN cache[ref].source ELSE OnDisk(ref)

Renders(ref) == SourceOf(ref) \notin {"absent", "malformed"}

ContentOf(ref) == <<"rendered", SourceOf(ref)>>

\* this step is the orchestrator rendering a file spec's template
FileRenderStep ==
    /\ lastRender' # lastRender
    /\ lastRender'.framework # Undefined

\* this step is a direct templateEngine.render call
RenderCallStep ==
    /\ lastRender' # lastRender
    /\ lastRender'.framework = Undefined

\* C23: when the render of a file spec's reference fails as not found, the
\* alternates are retried in order (the framework tag joined with the reference
\* stripped of its framework prefix and of 'common/', then the reference
\* stripped of its framework prefix), the first that renders supplies the
\* content, and the run fails with 'Template not found: <reference>' only when
\* the reference and both alternates failed.
C23_AlternatesRetriedInOrder ==
    [][(FileRenderStep /\ SourceOf(lastRender'.template) = "absent") =>
          LET alternates == StatedAlternates(lastRender'.framework,
                                             lastRender'.template)
          IN IF Renders(alternates[1])
             THEN /\ lastRender'.error = <<>>
                  /\ lastRender'.content = ContentOf(alternates[1])
             ELSE IF Renders(alternates[2])
             THEN /\ lastRender'.error = <<>>
                  /\ lastRender'.content = ContentOf(alternates[2])
             ELSE /\ lastRender'.error = TemplateNotFound(lastRender'.template)
                  /\ lastRender'.content = <<>>]_vars

\* C24: once render(ref) has succeeded, later render(ref) calls reuse the
\* cached compiled template whatever the template file has become, until
\* clearCache; a reference whose lookup failed is not added to the cache.
C24_CacheReusedUntilCleared ==
    [][/\ \A ref \in DOMAIN cache :
             IF ref \in DOMAIN cache'
             THEN cache'[ref] = cache[ref]
             ELSE cache' = EmptyCache /\ lastRender' = lastRender
       /\ RenderCallStep =>
             LET ref == lastRender'.template
             IN /\ ref \in DOMAIN cache =>
                      /\ cache' = cache
                      /\ cache[ref].source # "malformed" =>
                            /\ lastRender'.error = <<>>
                            /\ lastRender'.content = <<"rendered", cache[ref].source>>
                /\ lastRender'.error = <<>> => ref \in DOMAIN cache'
                /\ lastRender'.error = TemplateNotFound(ref) =>
                      ref \notin DOMAIN cache']_vars

C24_Witness ==
    /\ "seen" \in DOMAIN lastRender
    /\ lastRender.framework = Undefined
    /\ lastRender.error = <<>>
    /\ lastRender.seen = "absent"
    /\ lastRender.template \in DOMAIN cache

C25_LastSpecOfNameAndKindWins ==
    ManifestWritten =>
       LET context == BuildTemplateContext(subject.config, subject.generator, now)
           common == GetCommonDependencies(subject.config)
           specific == GetFrameworkDependencies(subject.generator, subject.config)
           Governs(i) == \A j \in (i + 1)..Len(depsRet) :
                            ~(/\ depsRet[j].name = depsRet[i].name
                              /\ depsRet[j].type = depsRet[i].type)
       IN /\ depsRet = common \o specific
          /\ \A i \in 1..Len(depsRet) :
                Governs(i) =>
                   /\ packageJson[SectionOf(depsRet[i].type)][depsRet[i].name]
                         = depsRet[i].version
                   /\ context[SectionOf(depsRet[i].type)][depsRet[i].name]
                         = depsRet[i].version
          /\ \A i \in 1..Len(specific) :
                (\A j \in (i + 1)..Len(specific) :
                    ~(/\ specific[j].name = specific[i].name
                      /\ specific[j].type = specific[i].type))
                   => packageJson[SectionOf(specific[i].type)][specific[i].name]
                         = specific[i].version

C25_Witness ==
    /\ ManifestWritten
    /\ subject.generator = "nodeGenerator"
    /\ \E i, j \in 1..Len(depsRet) :
          /\ i < j
          /\ depsRet[i] = DevDep("@types/node", "^22.0.0")
          /\ depsRet[j] = DevDep("@types/node", "^22.10.0")
    /\ packageJson.devDependencies["@types/node"] = "^22.10.0"

C27_ResultShape ==
    pc = "done" =>
       /\ result.success =>
             /\ "error" \notin DOMAIN result
             /\ result.nextSteps # <<>>
       /\ ~result.success =>
             /\ "error" \in DOMAIN result
             /\ result.error # <<>>
             /\ result.nextSteps = <<>>
       /\ (~Validated \/ ~validation.valid) =>
             /\ ~result.success
             /\ result.files = <<>>
             /\ result.warnings = <<>>

C27_Witness ==
    /\ pc = "done"
    /\ Validated
    /\ ~validation.valid
    /\ SelectSeq(validation.issues, IsWarning) # <<>>
    /\ ~result.success
    /\ result.warnings = <<>>

\* C28: for a built-in generator and a configuration its validate accepts,
\* getFiles declares no output path twice and never 'package.json'; so a run
\* writes no path twice, the manifest write hits no file spec's path, and no
\* path is twice in the result's files.
C28_DeclaredPathsDistinct ==
    (Validated /\ validation.valid /\ generator \in BuiltinGenerators) =>
       LET specs == GetFiles(generator, config)
           writes == FileWrites
       IN /\ pc = "ensureDir" =>
                /\ Cardinality({specs[i].path : i \in 1..Len(specs)}) = Len(specs)
                /\ \A i \in 1..Len(specs) : specs[i].path # <<"package.json">>
          /\ Cardinality(SeqRange(writes)) = Len(writes)
          /\ <<"package.json">> \notin SeqRange(writes)
          /\ Cardinality(SeqRange(files)) = Len(files)
          /\ "files" \in DOMAIN result =>
                Cardinality(SeqRange(result.files)) = Len(result.files)

C28_Witness ==
    /\ pc = "done"
    /\ result.success
    /\ generator \in BuiltinGenerators
    /\ config.includeExample
    /\ Includes(result.files, <<"example", "package.json">>)
    /\ Includes(result.files, <<"tsconfig.json">>)
    /\ Includes(result.files, <<"example", "tsconfig.json">>)
    /\ ManifestAt > 0

\* the built-in generator of a framework
BuiltinOf(fw) == CHOOSE g \in BuiltinGenerators : Meta(g).framework = fw

\* C30: once initializeGenerators has been called, one time or several, on a
\* registry that started empty, each of react, vue, svelte, vanilla and node
\* has exactly one generator in getByFramework, that generator is the
\* framework's primary, and getAll() is exactly the five built-in generators.
C30_InitializeIdempotent ==
    generators # <<>> =>
       /\ \A fw \in Frameworks :
             /\ GetByFramework(fw) = <<BuiltinOf(fw)>>
             /\ GetPrimary(fw) = BuiltinOf(fw)
       /\ Len(GetAll) = 5
       /\ SeqRange(GetAll) = BuiltinGenerators

====
